---- MODULE Spec2Model ----
(***************************************************************************)
(* Coverage decoding, daily aggregation, grid building and mock fallback   *)
(* of the FMI weather front end (React views over the OGC EDR API).        *)
(*                                                                         *)
(* Encoding of JavaScript values:                                          *)
(*   - numbers are integers; temperatures and wind speeds are in           *)
(*     hundredths of a unit (520 is 5.2), precipitation in hundredths of   *)
(*     a millimetre, coordinates in 1/1200 of a degree;                    *)
(*   - null and undefined are the two sentinels Null and Undefined;        *)
(*   - an ISO timestamp "....Z" is its epoch hour, a YYYY-MM-DD date key   *)
(*     is its epoch day;                                                   *)
(*   - a nullable React state is a sequence of length at most one.         *)
(* A response body cannot hold NaN or undefined: it is the result of       *)
(* response.json() (edrApi.ts), so a value is a number or null and a       *)
(* missing value is an index past the end of the array.                    *)
(***************************************************************************)
EXTENDS Integers, Sequences, FiniteSets, TLC

VARIABLES
    response,      \* body the EDR server returns to a position query (environment)
    chart,         \* TemperatureChart state
    app,           \* App (five-location view) state
    helsinki,      \* HelsinkiWeather state
    cityWeather,   \* WeatherDisplay.CityWeather state
    forecast,      \* FiveDayForecast state
    weekly,        \* the promise returned by weatherService.fetch7DayForecast
    quick,         \* App (city search view) state, fed by extractWeatherData
    areaResponse,  \* body the EDR server returns to an area query (environment)
    rain,          \* RainForecastGIF state (ChristmasWeatherMaps.tsx)
    rain2,         \* RainForecastGIF state (whole-Finland revision)
    weatherMap,    \* WeatherMap state
    average,       \* the promise returned by temperatureApi.getAverageTemperature
    served,        \* body the EDR server returns to each location's position query
    batch,         \* App (five-location view) state, one branch per location
    stationServed, \* what the EDR server returns to each station's locations query
    stationsCall,  \* the promise returned by cities.getAllStationObservations
    search,        \* App (city search view) state, with every call it has in flight
    current,       \* the promise returned by weatherService.fetchCurrentWeather
    wire,          \* what the network and the EDR server do with a request (environment)
    edr,           \* the promises returned by edrApi.getPositionData and getAreaData
    cityServed,    \* body the EDR server returns to the position query of each city
    picker,        \* App (city search view) state, every call with the city it asked for
    player,        \* RainForecastGIF animation state (time steps, index, interval)
    cityBodies,    \* body the EDR server returns to each city of the activity map
    activityMap,   \* ActivityMap state, one branch per city
    xmasBodies,    \* body the EDR server returns to each city of the Christmas maps
    christmas      \* ChristmasWeatherMaps state, one branch per city

vars == <<response, chart, app, helsinki, cityWeather, forecast, weekly, quick,
          areaResponse, rain, rain2, weatherMap, average, served, batch,
          stationServed, stationsCall, search, current, wire, edr,
          cityServed, picker, player, cityBodies, activityMap, xmasBodies,
          christmas>>

seriesVars == <<response, chart, app, helsinki, cityWeather>>
dailyVars == <<forecast, weekly, quick>>
gridVars == <<areaResponse, rain, rain2, weatherMap>>
fetchVars == <<wire, edr>>
pickVars == <<cityServed, picker>>
animVars == <<player>>
activityVars == <<cityBodies, activityMap>>
xmasVars == <<xmasBodies, christmas>>
mapVars == <<activityVars, xmasVars>>
restVars == <<fetchVars, pickVars, animVars, mapVars>>
lateVars == <<stationServed, stationsCall, search, current, restVars>>
oldVars == <<seriesVars, dailyVars, gridVars, average, served, batch,
             stationServed, stationsCall, search, current>>
moreVars == <<average, served, batch, lateVars>>

----------------------------------------------------------------------------
(* JavaScript values *)

Null == 0 - 1000
Undefined == 0 - 1001

NoError == "null"

None == <<>>
Some(v) == <<v>>

\* a[i] for a zero-based index i: undefined past the end
At(a, i) == IF i + 1 \in 1..Len(a) THEN a[i + 1] ELSE Undefined

\* v ?? d
Coalesce(v, d) == IF v = Null \/ v = Undefined THEN d ELSE v

MillisPerHour == 3600000
\* new Date(time).getTime()
GetTime(time) == time * MillisPerHour

----------------------------------------------------------------------------
(* Bounds and the responses drawn from them *)

MaxT == 2          \* longest time axis of a point-series response

TempVals == {Null, 0, 520}

ParamKeys == {"temperature", "Temperature", "windspeedms", "WindSpeedMS",
              "weathersymbol3", "WeatherSymbol3", "precipitation1h",
              "precipitationform", "totalcloudcover", "TotalCloudCover",
              "WindDirection", "Precipitation1h", "PoP"}

Absent == [present |-> FALSE, values |-> <<>>]
Present(vals) == [present |-> TRUE, values |-> vals]

SeqsUpTo(S, n) == UNION {[1..k -> S] : k \in 0..n}

\* ranges with only the temperature keys set
TempRanges(lower, upper) ==
    [k \in ParamKeys |-> IF k = "temperature" THEN lower
                         ELSE IF k = "Temperature" THEN upper ELSE Absent]

ValueArrays == {Present(v) : v \in SeqsUpTo(TempVals, MaxT + 1)}
ShortArrays == {Present(v) : v \in SeqsUpTo(TempVals, 1)}

RangeChoices ==
    {TempRanges(Absent, Absent)}
    \cup {TempRanges(a, Absent) : a \in ValueArrays}
    \cup {TempRanges(Absent, a) : a \in ValueArrays}
    \cup {TempRanges(a, b) : a \in ShortArrays, b \in ShortArrays}

\* hourly time axes of n steps, in ascending and in descending order
Ascending(n) == [i \in 1..n |-> i - 1]
Descending(n) == [i \in 1..n |-> n - i]
TimeAxes == {Ascending(n) : n \in 0..MaxT} \cup {Descending(n) : n \in 0..MaxT}

\* what is wrong with a body; all but the named defect is well formed
Shapes == {"ok", "fetchFail", "nullBody", "noRanges", "noT", "noTValues", "tNotArray"}

Malformed(rangeSet) ==
    {[shape |-> s, t |-> <<0>>, ranges |-> r] : s \in Shapes \ {"ok"}, r \in rangeSet}

SeriesResponses ==
    {[shape |-> "ok", t |-> t, ranges |-> r] : t \in TimeAxes, r \in RangeChoices}
    \cup Malformed({TempRanges(Present(<<520>>), Absent),
                    TempRanges(Absent, Present(<<Null>>))})

----------------------------------------------------------------------------
(* Parameter lookup shared by the point decoders *)

\* data.ranges.<lower>?.values || data.ranges.<Upper>?.values || []
\* (an array, even an empty one, is truthy)
LowerThenUpper(r, lower, upper) ==
    IF r.ranges[lower].present THEN r.ranges[lower].values
    ELSE IF r.ranges[upper].present THEN r.ranges[upper].values
    ELSE <<>>

\* data.ranges.<key>?.values || []
OnlyKey(r, key) == IF r.ranges[key].present THEN r.ranges[key].values ELSE <<>>

\* getPositionData throws: the status is not ok or the network call raised
FetchRejects(r) == r.shape = "fetchFail"

\* calling .map / .forEach on t.values throws a TypeError
TimesNotIterable(r) == r.shape \in {"noTValues", "tNotArray"}

----------------------------------------------------------------------------
(* TemperatureChart.fetchTemperatureForecast *)

\* !data || !data.ranges || !data.domain?.axes?.t
ChartInvalid(r) == r.shape \in {"nullBody", "noRanges", "noT"}

\* date.toLocaleTimeString('en-FI', hour and minute), for a browser in UTC
HourLabel(time) == time % 24

\* temperatures[index] ?? 0
ChartTemperature(temperatures, index) == Coalesce(At(temperatures, index), 0)

ChartTempData(r) ==
    LET temperatures == LowerThenUpper(r, "temperature", "Temperature")
    IN  [k \in 1..Len(r.t) |->
            [time |-> r.t[k],
             temperature |-> ChartTemperature(temperatures, k - 1),
             hour |-> HourLabel(r.t[k])]]

ChartError(r) ==
    IF FetchRejects(r) THEN "Failed to fetch position data"
    ELSE IF ChartInvalid(r) THEN "Invalid response from weather API"
    ELSE IF TimesNotIterable(r) THEN "TypeError"
    ELSE NoError

ChartInit == chart = [chartData |-> <<>>, loading |-> FALSE, error |-> NoError,
                      pc |-> "idle"]

\* setLoading(true); setError(null); then the await
ChartStart ==
    /\ chart.pc = "idle"
    /\ chart' = [chart EXCEPT !.loading = TRUE, !.error = NoError, !.pc = "awaiting"]
    /\ UNCHANGED <<moreVars, response, app, helsinki, cityWeather, dailyVars, gridVars>>

\* the awaited call settles: try body, catch, finally
ChartSettle ==
    /\ chart.pc = "awaiting"
    /\ chart' = IF ChartError(response) = NoError
                THEN [chart EXCEPT !.chartData = ChartTempData(response),
                                   !.loading = FALSE, !.pc = "idle"]
                ELSE [chart EXCEPT !.error = ChartError(response),
                                   !.loading = FALSE, !.pc = "idle"]
    /\ UNCHANGED <<moreVars, response, app, helsinki, cityWeather, dailyVars, gridVars>>

----------------------------------------------------------------------------
(* App (five locations): fetchWeatherDataForLocation and fetchWeatherData *)

LocationKeys == {"helsinki", "sodankyla", "utsjoki", "kilpisjarvi", "pello"}

\* getPositionData throws, or reading data.domain.axes.t.values /
\* data.ranges.temperature / timeValues.map throws a TypeError
ForLocationThrows(r) == r.shape # "ok"

\* values[index] ?? null
PointField(values, index) == Coalesce(At(values, index), Null)

TransformedDataTruncated(r) ==
    LET temperatures == LowerThenUpper(r, "temperature", "Temperature")
    IN  [i \in 1..(IF Len(temperatures) < Len(r.t) THEN Len(temperatures) ELSE Len(r.t)) |->
            [time |-> r.t[i], timestamp |-> GetTime(r.t[i]),
             temperature |-> PointField(temperatures, i - 1),
             windSpeed |-> Null, weatherSymbol |-> Null]]
TransformedData(r) ==
    LET temperatures == LowerThenUpper(r, "temperature", "Temperature")
        windSpeeds == LowerThenUpper(r, "windspeedms", "WindSpeedMS")
        weatherSymbols == LowerThenUpper(r, "weathersymbol3", "WeatherSymbol3")
    IN  [k \in 1..Len(r.t) |->
            [time |-> r.t[k],
             timestamp |-> GetTime(r.t[k]),
             temperature |-> PointField(temperatures, k - 1),
             windSpeed |-> PointField(windSpeeds, k - 1),
             weatherSymbol |-> PointField(weatherSymbols, k - 1)]]

\* new Date() at the time of the fallback, as an epoch hour
Now == 100

\* Math.sin(i / 2) * MOCK_TEMP_VARIATION and
\* MOCK_BASE_WIND + Math.cos(i / 3) * MOCK_WIND_VARIATION for i = 0..7, in hundredths
MockTempWave == <<0, 144, 252, 299, 273, 180, 42, 0 - 105>>
MockWind == <<700, 689, 657, 608, 547, 481, 417, 362>>
\* i === 0 ? 2 : i < 3 ? 3 : i < 5 ? 31 : 21
MockSymbol(i) == IF i = 0 THEN 2 ELSE IF i < 3 THEN 3 ELSE IF i < 5 THEN 31 ELSE 21

generateMockData(baseTemp) ==
    [j \in 1..8 |->
        [time |-> Now + (j - 1),
         timestamp |-> GetTime(Now + (j - 1)),
         temperature |-> baseTemp * 100 + MockTempWave[j],
         windSpeed |-> MockWind[j],
         weatherSymbol |-> MockSymbol(j - 1)]]

MockBaseTemp ==
    [k \in LocationKeys |->
        CASE k = "helsinki" -> 0 - 2
          [] k = "sodankyla" -> 0 - 10
          [] k = "utsjoki" -> 0 - 15
          [] k = "kilpisjarvi" -> 0 - 12
          [] OTHER -> 0 - 8]

\* origin is a history field: which branch wrote the data now displayed
AppInit == app = [weatherData |-> [k \in LocationKeys |-> None],
                  loading |-> FALSE, error |-> NoError,
                  pc |-> "idle", origin |-> "none"]

AppStart ==
    /\ app.pc = "idle"
    /\ app' = [app EXCEPT !.loading = TRUE, !.error = NoError, !.pc = "awaiting"]
    /\ UNCHANGED <<moreVars, response, chart, helsinki, cityWeather, dailyVars, gridVars>>

\* Promise.all over the five locations settles; every location is served `response`
AppSettle ==
    /\ app.pc = "awaiting"
    /\ app' = IF ~ForLocationThrows(response)
              THEN [app EXCEPT
                      !.weatherData = [k \in LocationKeys |-> Some(TransformedData(response))],
                      !.loading = FALSE, !.pc = "idle", !.origin = "live"]
              ELSE [app EXCEPT
                      !.weatherData = [k \in LocationKeys |-> Some(generateMockData(MockBaseTemp[k]))],
                      !.error = NoError,
                      !.loading = FALSE, !.pc = "idle", !.origin = "mock"]
    /\ UNCHANGED <<moreVars, response, chart, helsinki, cityWeather, dailyVars, gridVars>>

----------------------------------------------------------------------------
(* HelsinkiWeather.fetchWeatherData *)

\* the first character of a t.values that is a string, read as a timestamp
NotATime == 0 - 1

\* getPositionData throws, or data.ranges.temperature / data.domain.axes.t.values[0]
\* throws a TypeError; a string t.values is indexed without an error
HelsinkiThrows(r) == r.shape \in {"fetchFail", "nullBody", "noRanges", "noT", "noTValues"}

\* data.ranges.<key>?.values[0] ?? 0
FirstOrZero(r, key) == Coalesce(At(OnlyKey(r, key), 0), 0)

HelsinkiData(r) ==
    [temperature |-> FirstOrZero(r, "temperature"),
     precipitation1h |-> FirstOrZero(r, "precipitation1h"),
     precipitationForm |-> FirstOrZero(r, "precipitationform"),
     weatherSymbol |-> FirstOrZero(r, "weathersymbol3"),
     timestamp |-> IF r.shape = "tNotArray" THEN NotATime ELSE At(r.t, 0)]

MOCK_DATA ==
    [temperature |-> 618, precipitation1h |-> 33, precipitationForm |-> 1,
     weatherSymbol |-> 31, timestamp |-> Now]

HelsinkiInit == helsinki = [weatherData |-> None, loading |-> TRUE, error |-> NoError,
                            pc |-> "idle", origin |-> "none"]

HelsinkiStart ==
    /\ helsinki.pc = "idle"
    /\ helsinki' = [helsinki EXCEPT !.loading = TRUE, !.error = NoError, !.pc = "awaiting"]
    /\ UNCHANGED <<moreVars, response, chart, app, cityWeather, dailyVars, gridVars>>

HelsinkiSettle ==
    /\ helsinki.pc = "awaiting"
    /\ helsinki' = IF ~HelsinkiThrows(response)
                   THEN [helsinki EXCEPT !.weatherData = Some(HelsinkiData(response)),
                                         !.loading = FALSE, !.pc = "idle", !.origin = "live"]
                   ELSE [helsinki EXCEPT !.weatherData = Some(MOCK_DATA),
                                         !.loading = FALSE, !.pc = "idle", !.origin = "mock"]
    /\ UNCHANGED <<moreVars, response, chart, app, cityWeather, dailyVars, gridVars>>

----------------------------------------------------------------------------
(* WeatherDisplay.CityWeather.fetchWeather, for city = 'Helsinki' *)

\* getPositionData throws, or data.ranges.temperature / data.domain.axes.t.values
\* throws a TypeError
CityThrows(r) == r.shape \in {"fetchFail", "nullBody", "noRanges", "noT"}

\* data.domain.axes.t.values || []
CityTimestamps(r) ==
    CASE r.shape = "noTValues" -> <<>>
      [] r.shape = "tNotArray" -> <<NotATime>>
      [] OTHER -> r.t

CityData(r) ==
    [temperature |-> OnlyKey(r, "temperature"),
     windSpeed |-> OnlyKey(r, "windspeedms"),
     cloudCover |-> OnlyKey(r, "totalcloudcover"),
     timestamps |-> CityTimestamps(r)]

\* values Math.random() takes, in hundredths (one draw stands for all of a call's draws)
RandomUnits == {0, 50}

\* generateMockWeatherData('Helsinki'): baseTemp 2, seven hourly entries
generateMockWeatherData(u) ==
    [temperature |-> [i \in 1..7 |-> 200 + 2 * u - 100],
     windSpeed |-> [i \in 1..7 |-> 300 + 4 * u],
     cloudCover |-> [i \in 1..7 |-> 4000 + 40 * u],
     timestamps |-> [i \in 1..7 |-> Now + (i - 1)]]

CityInit == cityWeather = [weatherData |-> None, loading |-> TRUE, error |-> NoError,
                           pc |-> "idle", origin |-> "none"]

CityStart ==
    /\ cityWeather.pc = "idle"
    /\ cityWeather' = [cityWeather EXCEPT !.loading = TRUE, !.error = NoError,
                                          !.pc = "awaiting"]
    /\ UNCHANGED <<moreVars, response, chart, app, helsinki, dailyVars, gridVars>>

\* the catch branch sets the error, stores the mock data, then clears the error
CitySettle ==
    /\ cityWeather.pc = "awaiting"
    /\ \/ /\ ~CityThrows(response)
          /\ cityWeather' = [cityWeather EXCEPT !.weatherData = Some(CityData(response)),
                                !.loading = FALSE, !.pc = "idle", !.origin = "live"]
       \/ /\ CityThrows(response)
          /\ \E u \in RandomUnits :
                cityWeather' = [cityWeather EXCEPT
                                  !.weatherData = Some(generateMockWeatherData(u)),
                                  !.error = NoError,
                                  !.loading = FALSE, !.pc = "idle", !.origin = "mock"]
    /\ UNCHANGED <<moreVars, response, chart, app, helsinki, dailyVars, gridVars>>

----------------------------------------------------------------------------
(* Helpers of the two daily aggregations *)

HoursPerDay == 24
\* the calendar date in a zone two hours ahead of UTC
DateKeyLocal(time) == (time + 2) \div HoursPerDay
\* new Date(timestamp).toISOString().split('T')[0]: the UTC calendar date
DateKey(time) == time \div HoursPerDay

\* the keys of a Map filled by has/set while walking `keys`: first-seen order
InsertionOrder(keys) ==
    LET F[i \in 0..Len(keys)] ==
            IF i = 0 THEN <<>>
            ELSE IF \E j \in 1..(i - 1) : keys[j] = keys[i] THEN F[i - 1]
            ELSE Append(F[i - 1], keys[i])
    IN  F[Len(keys)]

\* Array.prototype.sort() of date keys
RECURSIVE SortAscending(_)
SortAscending(keys) ==
    IF keys = <<>> THEN <<>>
    ELSE LET m == CHOOSE a \in {keys[i] : i \in 1..Len(keys)} :
                      \A i \in 1..Len(keys) : a <= keys[i]
             at == CHOOSE i \in 1..Len(keys) : keys[i] = m
         IN  <<m>> \o SortAscending(SubSeq(keys, 1, at - 1) \o SubSeq(keys, at + 1, Len(keys)))

\* a slice that stops one element early
Slice0Exclusive(a, n) == SubSeq(a, 1, IF Len(a) < n THEN Len(a) ELSE n - 1)

\* array.slice(0, n)
Slice0(a, n) == SubSeq(a, 1, IF Len(a) < n THEN Len(a) ELSE n)

\* the values pushed for day `key`: values[index] for each index of that day that
\* is not one of `dropped`, in time-axis order
DayValues(times, values, key, dropped) ==
    LET idx == SelectSeq([i \in 1..Len(times) |-> i],
                         LAMBDA i : DateKey(times[i]) = key /\ At(values, i - 1) \notin dropped)
    IN  [j \in 1..Len(idx) |-> values[idx[j]]]

\* Number(v) for a value that enters arithmetic
ToNumber(v) == IF v = Null THEN 0 ELSE v

RECURSIVE SumSeq(_)
\* a.reduce((a, b) => a + b, 0)
SumSeq(a) == IF a = <<>> THEN 0 ELSE ToNumber(a[1]) + SumSeq(Tail(a))

\* Math.min(...a) and Math.max(...a) of a non-empty array
MathMin(a) == CHOOSE m \in {ToNumber(a[i]) : i \in 1..Len(a)} :
                  \A i \in 1..Len(a) : m <= ToNumber(a[i])
MathMax(a) == CHOOSE m \in {ToNumber(a[i]) : i \in 1..Len(a)} :
                  \A i \in 1..Len(a) : m >= ToNumber(a[i])

\* sum / length, kept as a fraction; count 0 is NaN
Mean(a) == [sum |-> SumSeq(a), count |-> Len(a)]

----------------------------------------------------------------------------
(* FiveDayForecast.fetchForecast *)

FORECAST_DAYS == 5

ForecastError(r) ==
    IF FetchRejects(r) THEN "Failed to fetch position data"
    ELSE IF r.shape \in {"nullBody", "noRanges", "noT"} THEN "Invalid response from weather API"
    ELSE IF TimesNotIterable(r) THEN "TypeError"
    ELSE NoError

Count(a, v) == Cardinality({i \in 1..Len(a) : a[i] = v})

\* Array.from(symbolCounts.entries()).sort((a, b) => b[1] - a[1])[0]?.[0] || 1
\* the sort is stable and the Map keeps first-seen order
MostCommonSymbol(symbols) ==
    IF symbols = <<>> THEN 1
    ELSE LET first == CHOOSE i \in 1..Len(symbols) :
                          /\ \A j \in 1..Len(symbols) :
                                Count(symbols, symbols[j]) <= Count(symbols, symbols[i])
                          /\ \A j \in 1..(i - 1) :
                                Count(symbols, symbols[j]) < Count(symbols, symbols[i])
         IN  IF symbols[first] = 0 THEN 1 ELSE symbols[first]

\* the day keys the aggregation loop visits
ForecastDayKeys(r) ==
    Slice0(InsertionOrder([i \in 1..Len(r.t) |-> DateKey(r.t[i])]), FORECAST_DAYS)

\* one visited day: its date, its non-null temperatures and the aggregates pushed
\* when there is at least one
\* (a value is pushed when it is !== null && !== undefined)
ForecastDay(r, dateKey) ==
    LET temps == DayValues(r.t, LowerThenUpper(r, "temperature", "Temperature"),
                           dateKey, {Null, Undefined})
        winds == DayValues(r.t, LowerThenUpper(r, "windspeedms", "WindSpeedMS"),
                           dateKey, {Null, Undefined})
        symbols == DayValues(r.t, LowerThenUpper(r, "weathersymbol3", "WeatherSymbol3"),
                             dateKey, {Null, Undefined})
    IN  [date |-> dateKey,
         temps |-> temps,
         minTemp |-> IF temps = <<>> THEN 0 ELSE MathMin(temps),
         maxTemp |-> IF temps = <<>> THEN 0 ELSE MathMax(temps),
         avgWindSpeed |-> Mean(winds),
         weatherSymbol |-> MostCommonSymbol(symbols)]

\* dailyForecasts: the visited days that have a temperature, without the scratch field
DailyForecasts(r) ==
    LET keys == ForecastDayKeys(r)
        days == [i \in 1..Len(keys) |-> ForecastDay(r, keys[i])]
        kept == SelectSeq(days, LAMBDA d : Len(d.temps) > 0)
    IN  [i \in 1..Len(kept) |->
            [date |-> kept[i].date, minTemp |-> kept[i].minTemp,
             maxTemp |-> kept[i].maxTemp, avgWindSpeed |-> kept[i].avgWindSpeed,
             weatherSymbol |-> kept[i].weatherSymbol]]

ForecastInit == forecast = [forecastData |-> <<>>, loading |-> FALSE, error |-> NoError,
                            pc |-> "idle", loaded |-> FALSE]

ForecastStart ==
    /\ forecast.pc = "idle"
    /\ forecast' = [forecast EXCEPT !.loading = TRUE, !.error = NoError, !.pc = "awaiting"]
    /\ UNCHANGED <<moreVars, response, chart, app, helsinki, cityWeather, weekly, quick, gridVars>>

\* the settle step of a view that would drop its data when the refresh fails
ForecastSettleClearing ==
    /\ forecast.pc = "awaiting"
    /\ forecast' = IF ForecastError(response) = NoError
                   THEN [forecast EXCEPT !.forecastData = DailyForecasts(response),
                                         !.loading = FALSE, !.pc = "idle", !.loaded = TRUE]
                   ELSE [forecast EXCEPT !.forecastData = <<>>,
                                         !.error = ForecastError(response),
                                         !.loading = FALSE, !.pc = "idle"]
    /\ UNCHANGED <<moreVars, response, chart, app, helsinki, cityWeather, weekly, quick, gridVars>>

\* loaded is a history field: setForecastData has run
ForecastSettle ==
    /\ forecast.pc = "awaiting"
    /\ forecast' = IF ForecastError(response) = NoError
                   THEN [forecast EXCEPT !.forecastData = DailyForecasts(response),
                                         !.loading = FALSE, !.pc = "idle", !.loaded = TRUE]
                   ELSE [forecast EXCEPT !.error = ForecastError(response),
                                         !.loading = FALSE, !.pc = "idle"]
    /\ UNCHANGED <<moreVars, response, chart, app, helsinki, cityWeather, weekly, quick, gridVars>>

----------------------------------------------------------------------------
(* weatherService.fetch7DayForecast *)

WEEK_DAYS == 7
DEFAULT_CLOUD_COVER == 50

\* getPositionData throws, or data.domain.axes.t.values.forEach throws a TypeError,
\* or the first iteration reads Temperature of an undefined data.ranges
WeeklyThrows(r) ==
    \/ r.shape \in {"fetchFail", "nullBody", "noT", "noTValues", "tNotArray"}
    \/ r.shape = "noRanges" /\ Len(r.t) > 0

\* x !== undefined
Defined(v) == v # Undefined

\* calculateWeatherSymbolFromCloudCover(sum / count)
SymbolFromCloudCover(sum, count) ==
    IF sum < 20 * count THEN 1 ELSE IF sum < 50 * count THEN 2 ELSE 22

\* the keys of dailyData: days with a temperature that is not undefined
WeeklyDayKeys(r) ==
    LET temps == OnlyKey(r, "Temperature")
        idx == SelectSeq([i \in 1..Len(r.t) |-> i], LAMBDA i : Defined(At(temps, i - 1)))
    IN  Slice0(SortAscending(InsertionOrder([j \in 1..Len(idx) |-> DateKey(r.t[idx[j]])])),
               WEEK_DAYS)

WeeklyDay(r, dateKey) ==
    LET temps == DayValues(r.t, OnlyKey(r, "Temperature"), dateKey, {Undefined})
        clouds == DayValues(r.t, OnlyKey(r, "TotalCloudCover"), dateKey, {Undefined})
    IN  [date |-> dateKey,
         temperature |-> [min |-> MathMin(temps), max |-> MathMax(temps),
                          avg |-> Mean(temps)],
         weatherSymbol |-> IF Len(clouds) > 0
                           THEN SymbolFromCloudCover(SumSeq(clouds), Len(clouds))
                           ELSE SymbolFromCloudCover(DEFAULT_CLOUD_COVER, 1)]

WeeklyForecasts(r) ==
    LET keys == WeeklyDayKeys(r)
    IN  [i \in 1..Len(keys) |-> WeeklyDay(r, keys[i])]

WeeklyInit == weekly = [pc |-> "idle", outcome |-> "none", forecasts |-> <<>>]

\* the call is made and suspends at the await
WeeklyStart ==
    /\ weekly.pc = "idle"
    /\ weekly' = [weekly EXCEPT !.pc = "awaiting"]
    /\ UNCHANGED <<moreVars, response, chart, app, helsinki, cityWeather, forecast, quick, gridVars>>

\* the promise settles
WeeklySettle ==
    /\ weekly.pc = "awaiting"
    /\ weekly' = IF WeeklyThrows(response)
                 THEN [pc |-> "idle", outcome |-> "rejected", forecasts |-> <<>>]
                 ELSE [pc |-> "idle", outcome |-> "resolved",
                       forecasts |-> WeeklyForecasts(response)]
    /\ UNCHANGED <<moreVars, response, chart, app, helsinki, cityWeather, forecast, quick, gridVars>>

----------------------------------------------------------------------------
(* types/weather.extractWeatherData and App (city search view).fetchWeatherData *)

HOURLY_COUNT == 12

\* reading response.domain.axes.t.values or ranges.Temperature throws a TypeError,
\* or .map is called on the slice of a string
ExtractThrows(r) ==
    \/ r.shape \in {"nullBody", "noRanges", "noT"}
    \/ r.shape = "tNotArray" /\ r.ranges["Temperature"].present

\* ranges.<key>?.values?.[0], the field being left unset when that is undefined
FirstValue(r, key) == At(OnlyKey(r, key), 0)

\* timeValues.slice(0, hourlyCount).map(...).filter(item => item.temperature !== undefined)
HourlyTemperatures(r, hourlyCount) ==
    LET times == Slice0(r.t, hourlyCount)
        temps == r.ranges["Temperature"].values
        idx == SelectSeq([i \in 1..Len(times) |-> i], LAMBDA i : Defined(At(temps, i - 1)))
    IN  [j \in 1..Len(idx) |-> [time |-> times[idx[j]], temperature |-> temps[idx[j]]]]

\* an optional field that was not assigned reads undefined; hourlyTemperatures is
\* assigned only when the Temperature values and timeValues are both truthy
extractWeatherData(r, hourlyCount) ==
    [temperature |-> FirstValue(r, "Temperature"),
     windSpeedMS |-> FirstValue(r, "WindSpeedMS"),
     windDirection |-> FirstValue(r, "WindDirection"),
     precipitation1h |-> FirstValue(r, "Precipitation1h"),
     pop |-> FirstValue(r, "PoP"),
     hourlyTemperatures |->
        IF r.ranges["Temperature"].present /\ r.shape = "ok"
        THEN Some(HourlyTemperatures(r, hourlyCount))
        ELSE None]

\* utils/mockData.getMockWeatherData(), values in hundredths
getMockWeatherData ==
    [shape |-> "ok",
     t |-> [i \in 1..12 |-> Now + (i - 1)],
     ranges |-> [k \in ParamKeys |->
        CASE k = "Temperature" ->
                Present(<<520, 480, 450, 420, 400, 410, 450, 500, 580, 650, 720, 780>>)
          [] k = "WindSpeedMS" ->
                Present(<<350, 380, 410, 420, 400, 380, 350, 320, 300, 280, 250, 230>>)
          [] k = "WindDirection" ->
                Present(<<22500, 23000, 23500, 24000, 24500, 25000, 25500, 26000, 26500,
                          27000, 27500, 28000>>)
          [] k = "Precipitation1h" ->
                Present(<<10, 20, 30, 50, 40, 30, 20, 10, 0, 0, 0, 0>>)
          [] k = "PoP" ->
                Present(<<2500, 3000, 3500, 4500, 4000, 3500, 3000, 2500, 2000, 1500,
                          1000, 1000>>)
          [] OTHER -> Absent]]

QuickInit == quick = [weatherData |-> None, loading |-> FALSE, error |-> NoError,
                      pc |-> "idle", origin |-> "none"]

\* the fallback below the first try block
QuickFallback ==
    [quick EXCEPT !.weatherData = Some(extractWeatherData(getMockWeatherData, HOURLY_COUNT)),
                  !.error = NoError, !.loading = FALSE, !.pc = "idle", !.origin = "mock"]

QuickStart ==
    /\ quick.pc = "idle"
    /\ quick' = [quick EXCEPT !.loading = TRUE, !.error = NoError, !.pc = "awaiting"]
    /\ UNCHANGED <<moreVars, response, chart, app, helsinki, cityWeather, forecast, weekly, gridVars>>

\* the fetch settles before the five-second timer
QuickSettle ==
    /\ quick.pc = "awaiting"
    /\ quick' = IF FetchRejects(response) \/ ExtractThrows(response)
                THEN QuickFallback
                ELSE [quick EXCEPT
                        !.weatherData = Some(extractWeatherData(response, HOURLY_COUNT)),
                        !.loading = FALSE, !.pc = "idle", !.origin = "live"]
    /\ UNCHANGED <<moreVars, response, chart, app, helsinki, cityWeather, forecast, weekly, gridVars>>

\* the timer wins the race: the request is abandoned
QuickTimeout ==
    /\ quick.pc = "awaiting"
    /\ quick' = QuickFallback
    /\ UNCHANGED <<moreVars, response, chart, app, helsinki, cityWeather, forecast, weekly, gridVars>>

----------------------------------------------------------------------------
(* Responses of several days *)

MaxDays == 8       \* days covered by a forecast response
MaxSpecial == 2    \* days of a response that are not fully sampled

\* a day's samples: "full" two values, "mixed" a null and a value, "null" one
\* null, "none" no sample that day
DayPatterns == {"full", "mixed", "null", "none"}

DayPlans ==
    {p \in [0..(MaxDays - 1) -> DayPatterns] :
        Cardinality({d \in 0..(MaxDays - 1) : p[d] # "full"}) <= MaxSpecial}

DayTimes(d, pattern) ==
    CASE pattern = "none" -> <<>>
      [] pattern = "null" -> <<HoursPerDay * d + 6>>
      [] OTHER -> <<HoursPerDay * d + 6, HoursPerDay * d + 18>>

DayTemps(d, pattern) ==
    CASE pattern = "none" -> <<>>
      [] pattern = "null" -> <<Null>>
      [] pattern = "mixed" -> <<Null, 100 * d + 150>>
      [] OTHER -> <<100 * d + 250, 100 * d + 50>>

\* the samples of days first..last of a plan, in ascending or descending day order
RECURSIVE PlanTimes(_, _, _, _)
PlanTimes(p, first, last, ascending) ==
    IF first > last THEN <<>>
    ELSE IF ascending
         THEN DayTimes(first, p[first]) \o PlanTimes(p, first + 1, last, ascending)
         ELSE DayTimes(last, p[last]) \o PlanTimes(p, first, last - 1, ascending)

RECURSIVE PlanTemps(_, _, _, _)
PlanTemps(p, first, last, ascending) ==
    IF first > last THEN <<>>
    ELSE IF ascending
         THEN DayTemps(first, p[first]) \o PlanTemps(p, first + 1, last, ascending)
         ELSE DayTemps(last, p[last]) \o PlanTemps(p, first, last - 1, ascending)

\* the value array as sent: whole, or without its last `cut` values
CutTail(a, cut) == SubSeq(a, 1, IF Len(a) < cut THEN 0 ELSE Len(a) - cut)

DailyResponses ==
    {[shape |-> "ok",
      t |-> PlanTimes(p, 0, MaxDays - 1, asc),
      ranges |-> IF lower
                 THEN TempRanges(Present(CutTail(PlanTemps(p, 0, MaxDays - 1, asc), cut)), Absent)
                 ELSE TempRanges(Absent, Present(CutTail(PlanTemps(p, 0, MaxDays - 1, asc), cut)))] :
        p \in DayPlans, asc \in BOOLEAN, lower \in BOOLEAN, cut \in 0..1}
    \cup Malformed({TempRanges(Absent, Present(<<520>>))})

----------------------------------------------------------------------------
(* Area responses. Coordinates are in 1/1200 of a degree, which keeps the
   fallback coordinates of the rain views whole numbers. *)

UnitsPerDegree == 1200

MaxAxis == 2       \* longest x or y axis of an area response
MaxGridT == 2      \* longest time axis of an area response

\* longitudes 0, 22, 24, ... degrees and latitudes 60, 61, ... degrees
XLine == [i \in 1..(MaxAxis + 1) |-> IF i = 1 THEN 0 ELSE (20 + 2 * (i - 1)) * UnitsPerDegree]
YLine == [i \in 1..MaxAxis |-> (59 + i) * UnitsPerDegree]

XAxes == {SubSeq(XLine, a, b) : a \in 1..(MaxAxis + 1), b \in 0..(MaxAxis + 1)}
            \ {ax \in {SubSeq(XLine, a, b) : a \in 1..(MaxAxis + 1), b \in 0..(MaxAxis + 1)} :
                  Len(ax) > MaxAxis}
YAxes == {SubSeq(YLine, 1, n) : n \in 0..MaxAxis}

\* the flat value array of a grid: 10, 20, 30, ... (hundredths of a millimetre)
Ramp(len) == [i \in 1..len |-> 10 * i]
\* the same with one value replaced
Hole(a, at, v) == [i \in 1..Len(a) |-> IF i = at THEN v ELSE a[i]]

\* arrays of the expected length n, one short, one long or empty; whole, or with
\* the first or last value null or at the 0.01 mm threshold
GridValues(n) ==
    LET lens == {l \in {0, n - 1, n, n + 1} : l >= 0}
    IN  {Ramp(l) : l \in lens}
        \cup UNION {{Hole(Ramp(l), at, v) : at \in {1, l}, v \in {Null, 1}} :
                        l \in lens \ {0}}

GridTimes == {Ascending(n) : n \in 0..MaxGridT}

\* a body with both axes empty is left out: its grid would be GRID_RESOLUTION squared
AreaResponses ==
    UNION {{[shape |-> "ok", t |-> t, x |-> x, y |-> y, values |-> v] :
                v \in GridValues(Len(t) * Len(x) * Len(y))} :
           t \in GridTimes, x \in XAxes, y \in {ax \in YAxes : ax # <<>>}}
    \cup {[shape |-> "ok", t |-> t, x |-> x, y |-> <<>>, values |-> v] :
        t \in GridTimes, x \in {ax \in XAxes : ax # <<>>}, v \in {Ramp(0), Ramp(3)}}
    \cup {[shape |-> s, t |-> <<0>>, x |-> <<XLine[2]>>, y |-> <<YLine[1]>>, values |-> Ramp(1)] :
        s \in {"fetchFail", "noTValues", "noParam"}}

NoAreaResponse == [shape |-> "fetchFail", t |-> <<>>, x |-> <<>>, y |-> <<>>, values |-> <<>>]

----------------------------------------------------------------------------
(* RainForecastGIF.fetchPrecipitationData, southern-Finland revision
   (ChristmasWeatherMaps.tsx) *)

\* getAreaData throws, or !data.domain?.axes?.t?.values || !data.ranges?.Precipitation1h
RainThrows(r) == r.shape \in {"fetchFail", "noTValues", "noParam"}

\* value !== null && value > 0.01 ? value : null   (undefined > 0.01 is false)
PrecipValue(value) == IF value # Null /\ value # Undefined /\ value > 1 THEN value ELSE Null

GRID_RESOLUTION == 80
BBOX == [minLon |-> 22 * UnitsPerDegree, maxLon |-> 26 * UnitsPerDegree,
         minLat |-> 71400, maxLat |-> 73800]

\* a.length || GRID_RESOLUTION
RainDim(axis) == IF Len(axis) # 0 THEN Len(axis) ELSE GRID_RESOLUTION

\* axis[i] || lo + (i / n) * (hi - lo): a coordinate of 0 is falsy
RainCoord(axis, i, n, lo, hi) ==
    IF At(axis, i) # Undefined /\ At(axis, i) # 0 THEN At(axis, i)
    ELSE lo + (i * (hi - lo)) \div n

\* the cells of one time step, row by row
RainGridData(r, timeIndex) ==
    LET numX == RainDim(r.x)
        numY == RainDim(r.y)
    IN  [c \in 1..(numY * numX) |->
            LET yi == (c - 1) \div numX
                xi == (c - 1) % numX
                dataIndex == timeIndex * (numX * numY) + yi * numX + xi
            IN  [lon |-> RainCoord(r.x, xi, numX, BBOX.minLon, BBOX.maxLon),
                 lat |-> RainCoord(r.y, yi, numY, BBOX.minLat, BBOX.maxLat),
                 value |-> PrecipValue(At(r.values, dataIndex))]]

RainSteps(r) == [k \in 1..Len(r.t) |->
                    [time |-> r.t[k], gridData |-> RainGridData(r, k - 1)]]

\* generateDemoData: 12 steps of (GRID_RESOLUTION + 1) squared cells with random
\* values; the state keeps its shape, not its cells
DemoShape(resolution) == [steps |-> 12, cells |-> (resolution + 1) * (resolution + 1)]
NoDemo == [steps |-> 0, cells |-> 0]

RainInit == rain = [timeSteps |-> <<>>, demo |-> NoDemo, currentTimeIndex |-> 0,
                    loading |-> FALSE, error |-> NoError, pc |-> "idle", origin |-> "none"]

RainStart ==
    /\ rain.pc = "idle"
    /\ rain' = [rain EXCEPT !.loading = TRUE, !.error = NoError, !.pc = "awaiting"]
    /\ UNCHANGED <<moreVars, response, chart, app, helsinki, cityWeather, dailyVars,
                   areaResponse, rain2, weatherMap>>

RainSettle ==
    /\ rain.pc = "awaiting"
    /\ rain' = IF ~RainThrows(areaResponse)
               THEN [rain EXCEPT !.timeSteps = RainSteps(areaResponse), !.demo = NoDemo,
                                 !.currentTimeIndex = 0,
                                 !.loading = FALSE, !.pc = "idle", !.origin = "live"]
               ELSE [rain EXCEPT
                       !.error = "Unable to fetch live data from API. Showing demo visualization.",
                       !.timeSteps = <<>>, !.demo = DemoShape(GRID_RESOLUTION),
                       !.currentTimeIndex = 0,
                       !.loading = FALSE, !.pc = "idle", !.origin = "demo"]
    /\ UNCHANGED <<moreVars, response, chart, app, helsinki, cityWeather, dailyVars,
                   areaResponse, rain2, weatherMap>>

----------------------------------------------------------------------------
(* RainForecastGIF.fetchPrecipitationData, whole-Finland revision *)

GRID_RESOLUTION2 == 150
BBOX2 == [minLon |-> 23400, maxLon |-> 37800, minLat |-> 71400, maxLat |-> 84000]

\* a.length > 0 ? a.length : GRID_RESOLUTION
Rain2Dim(axis) == IF Len(axis) > 0 THEN Len(axis) ELSE GRID_RESOLUTION2

\* axis[i] !== undefined ? axis[i] : lo + (i / n) * (hi - lo)
Rain2Coord(axis, i, n, lo, hi) ==
    IF At(axis, i) # Undefined THEN At(axis, i) ELSE lo + (i * (hi - lo)) \div n

Rain2IndexColumnMajor(timeIndex, yi, xi, numX, numY) ==
    timeIndex * (numX * numY) + xi * numY + yi
\* timeIndex * (numX * numY) + yi * numX + xi
Rain2Index(timeIndex, yi, xi, numX, numY) ==
    timeIndex * (numX * numY) + yi * numX + xi

\* dataIndex < precipValues.length ? precipValues[dataIndex] : null, then the threshold
Rain2Cell(values, dataIndex) ==
    PrecipValue(IF dataIndex < Len(values) THEN At(values, dataIndex) ELSE Null)

Rain2GridData(r, timeIndex) ==
    LET numX == Rain2Dim(r.x)
        numY == Rain2Dim(r.y)
    IN  [c \in 1..(numY * numX) |->
            LET yi == (c - 1) \div numX
                xi == (c - 1) % numX
            IN  [lon |-> Rain2Coord(r.x, xi, numX, BBOX2.minLon, BBOX2.maxLon),
                 lat |-> Rain2Coord(r.y, yi, numY, BBOX2.minLat, BBOX2.maxLat),
                 value |-> Rain2Cell(r.values, Rain2Index(timeIndex, yi, xi, numX, numY))]]

Rain2Steps(r) == [k \in 1..Len(r.t) |->
                     [time |-> r.t[k], gridData |-> Rain2GridData(r, k - 1)]]

Rain2Init == rain2 = [timeSteps |-> <<>>, demo |-> NoDemo, currentTimeIndex |-> 0,
                      loading |-> FALSE, error |-> NoError, pc |-> "idle", origin |-> "none"]

Rain2Start ==
    /\ rain2.pc = "idle"
    /\ rain2' = [rain2 EXCEPT !.loading = TRUE, !.error = NoError, !.pc = "awaiting"]
    /\ UNCHANGED <<moreVars, response, chart, app, helsinki, cityWeather, dailyVars,
                   areaResponse, rain, weatherMap>>

Rain2Settle ==
    /\ rain2.pc = "awaiting"
    /\ rain2' = IF ~RainThrows(areaResponse)
                THEN [rain2 EXCEPT !.timeSteps = Rain2Steps(areaResponse), !.demo = NoDemo,
                                   !.currentTimeIndex = 0,
                                   !.loading = FALSE, !.pc = "idle", !.origin = "live"]
                ELSE [rain2 EXCEPT
                        !.error = "Unable to fetch live data from API. Showing demo visualization.",
                        !.timeSteps = <<>>, !.demo = DemoShape(GRID_RESOLUTION2),
                        !.currentTimeIndex = 0,
                        !.loading = FALSE, !.pc = "idle", !.origin = "demo"]
    /\ UNCHANGED <<moreVars, response, chart, app, helsinki, cityWeather, dailyVars,
                   areaResponse, rain, weatherMap>>

----------------------------------------------------------------------------
(* WeatherMap.fetchWeatherData *)

WeatherMapError(r) ==
    CASE r.shape = "fetchFail" -> "Failed to fetch area data"
      [] r.shape = "noParam" -> "No data available for the selected parameter"
      [] OTHER -> NoError

\* the cells of the first time step that hold a number, row by row; the colour,
\* a function of the value alone, is left out
MapPoints(r) ==
    LET numX == Len(r.x)
        cells == [c \in 1..(Len(r.y) * numX) |->
                    [lat |-> r.y[((c - 1) \div numX) + 1],
                     lon |-> r.x[((c - 1) % numX) + 1],
                     value |-> At(r.values, c - 1)]]
        kept == SelectSeq(cells, LAMBDA p : p.value # Null /\ p.value # Undefined)
    IN  kept

WeatherMapInit == weatherMap = [weatherData |-> <<>>, loading |-> FALSE, error |-> NoError,
                                pc |-> "idle", loaded |-> FALSE]

WeatherMapStart ==
    /\ weatherMap.pc = "idle"
    /\ weatherMap' = [weatherMap EXCEPT !.loading = TRUE, !.error = NoError,
                                        !.pc = "awaiting"]
    /\ UNCHANGED <<moreVars, response, chart, app, helsinki, cityWeather, dailyVars,
                   areaResponse, rain, rain2>>

\* loaded is a history field: setWeatherData has run
WeatherMapSettle ==
    /\ weatherMap.pc = "awaiting"
    /\ weatherMap' = IF WeatherMapError(areaResponse) = NoError
                     THEN [weatherMap EXCEPT !.weatherData = MapPoints(areaResponse),
                                             !.loading = FALSE, !.pc = "idle",
                                             !.loaded = TRUE]
                     ELSE [weatherMap EXCEPT !.error = WeatherMapError(areaResponse),
                                             !.loading = FALSE, !.pc = "idle"]
    /\ UNCHANGED <<moreVars, response, chart, app, helsinki, cityWeather, dailyVars,
                   areaResponse, rain, rain2>>

----------------------------------------------------------------------------
(* temperatureApi.getAverageTemperature *)

\* data.ranges?.Temperature?.values || data.ranges?.temperature?.values
\* (undefined when neither key is there)
UpperThenLower(r) ==
    IF r.ranges["Temperature"].present THEN r.ranges["Temperature"].values
    ELSE IF r.ranges["temperature"].present THEN r.ranges["temperature"].values
    ELSE <<>>

\* the values passed on as they are, null entries included
ValidTemperaturesUnfiltered(r) == UpperThenLower(r)

\* temperatureValues.filter(temp => temp !== null && temp !== undefined && !isNaN(temp))
ValidTemperatures(r) == SelectSeq(UpperThenLower(r), LAMBDA temp : temp # Null)

AverageError(r) ==
    IF FetchRejects(r) THEN "Failed to fetch position data"
    ELSE IF r.shape = "nullBody" THEN "TypeError"
    ELSE IF r.shape = "noRanges" \/ UpperThenLower(r) = <<>>
         THEN "No temperature data available for the specified date and location"
    ELSE IF ValidTemperatures(r) = <<>> THEN "No valid temperature data available"
    ELSE NoError

AverageInit == average = [pc |-> "idle", outcome |-> "none", error |-> NoError,
                          value |-> Mean(<<>>)]

\* the call is made and suspends at the await
AverageStart ==
    /\ average.pc = "idle"
    /\ average' = [average EXCEPT !.pc = "awaiting"]
    /\ UNCHANGED <<seriesVars, dailyVars, gridVars, served, batch, lateVars>>

\* the promise settles: the mean of the valid values, or the error rethrown
AverageSettle ==
    /\ average.pc = "awaiting"
    /\ average' = IF AverageError(response) = NoError
                  THEN [pc |-> "idle", outcome |-> "resolved", error |-> NoError,
                        value |-> Mean(ValidTemperatures(response))]
                  ELSE [pc |-> "idle", outcome |-> "rejected",
                        error |-> AverageError(response), value |-> Mean(<<>>)]
    /\ UNCHANGED <<seriesVars, dailyVars, gridVars, served, batch, lateVars>>

----------------------------------------------------------------------------
(* App (five locations).fetchWeatherData, branch by branch: Promise.all over
   fetchWeatherDataForLocation *)

\* what tells one location's body from another's: its temperature, in hundredths
LocationTag ==
    [k \in LocationKeys |->
        CASE k = "helsinki" -> 110
          [] k = "sodankyla" -> 220
          [] k = "utsjoki" -> 330
          [] k = "kilpisjarvi" -> 440
          [] OTHER -> 550]

\* the bodies a location can be served: a series of one step, a body without
\* t.values, or none (the request fails)
LocationResponses(k) ==
    {[shape |-> s, t |-> Ascending(1),
      ranges |-> TempRanges(Present(<<LocationTag[k]>>), Absent)] :
        s \in {"ok", "noTValues", "fetchFail"}}

ServedResponses == {f \in [LocationKeys -> UNION {LocationResponses(k) : k \in LocationKeys}] :
                       \A k \in LocationKeys : f[k] \in LocationResponses(k)}

NoResponse == [shape |-> "fetchFail", t |-> <<>>, ranges |-> TempRanges(Absent, Absent)]

NoneServed == [k \in LocationKeys |-> NoResponse]

\* branch: the state of each fetchWeatherDataForLocation promise of the current
\* batch; result: what a fulfilled one returned; settled: a history field, the
\* order in which the branches of the current batch settled
BatchInit == batch = [weatherData |-> [k \in LocationKeys |-> None],
                      loading |-> FALSE, error |-> NoError, pc |-> "idle",
                      branch |-> [k \in LocationKeys |-> "none"],
                      result |-> [k \in LocationKeys |-> None],
                      settled |-> <<>>, origin |-> "none"]

\* setLoading(true); setError(null); the five requests are issued; await Promise.all
BatchStart ==
    /\ batch.pc = "idle"
    /\ batch' = [batch EXCEPT !.loading = TRUE, !.error = NoError, !.pc = "awaiting",
                              !.branch = [k \in LocationKeys |-> "pending"],
                              !.result = [k \in LocationKeys |-> None],
                              !.settled = <<>>]
    /\ UNCHANGED <<seriesVars, dailyVars, gridVars, average, served, lateVars>>

\* one location's request settles, in any order: its promise is fulfilled with the
\* transformed series or rejected
BranchSettle(k) ==
    /\ batch.branch[k] = "pending"
    /\ batch' = IF ForLocationThrows(served[k])
                THEN [batch EXCEPT !.branch[k] = "rejected",
                                   !.settled = Append(@, k)]
                ELSE [batch EXCEPT !.branch[k] = "fulfilled",
                                   !.result[k] = Some(TransformedData(served[k])),
                                   !.settled = Append(@, k)]
    /\ UNCHANGED <<seriesVars, dailyVars, gridVars, average, served, lateVars>>

PromiseAllFulfilled == \A k \in LocationKeys : batch.branch[k] = "fulfilled"
\* Promise.all rejects as soon as one branch has rejected
PromiseAllRejected == \E k \in LocationKeys : batch.branch[k] = "rejected"

\* Object.keys(LOCATIONS)
locationKeys == <<"helsinki", "sodankyla", "utsjoki", "kilpisjarvi", "pello">>

NewWeatherDataInSettlingOrder ==
    [k \in LocationKeys |->
        batch.result[batch.settled[CHOOSE i \in 1..Len(locationKeys) : locationKeys[i] = k]]]
\* newWeatherData[key] = results[index]: Promise.all keeps the order of its input,
\* so results[index] is what the branch of locationKeys[index] returned
NewWeatherData ==
    [k \in LocationKeys |->
        batch.result[locationKeys[CHOOSE i \in 1..Len(locationKeys) : locationKeys[i] = k]]]

FallbackDataPerBranch ==
    [k \in LocationKeys |-> IF batch.branch[k] = "fulfilled" THEN batch.result[k]
                            ELSE Some(generateMockData(MockBaseTemp[k]))]
\* the object literal of the catch block: mock data for every location
FallbackData == [k \in LocationKeys |-> Some(generateMockData(MockBaseTemp[k]))]

\* the await returns or throws: the results are stored under their location keys,
\* or every location gets mock data; finally clears loading
BatchSettle ==
    /\ batch.pc = "awaiting"
    /\ \/ /\ PromiseAllFulfilled
          /\ batch' = [batch EXCEPT !.weatherData = NewWeatherData,
                                    !.loading = FALSE, !.pc = "idle", !.origin = "live"]
       \/ /\ PromiseAllRejected
          /\ batch' = [batch EXCEPT
                         !.weatherData = FallbackData,
                         !.error = NoError,
                         !.loading = FALSE, !.pc = "idle", !.origin = "mock"]
    /\ UNCHANGED <<seriesVars, dailyVars, gridVars, average, served, lateVars>>

----------------------------------------------------------------------------
(* cities.getStationObservations and cities.getAllStationObservations *)

MaxStations == 2    \* stations of GULF_OF_FINLAND_STATIONS that are queried

GULF_OF_FINLAND_STATIONS ==
    <<"100932", "100946", "100969", "100997", "100996",
      "151028", "101022", "101023", "101039", "101042">>

StationIndexes == 1..MaxStations

ObsKeys == {"ta_pt1m_avg", "ws_pt10m_avg", "wd_pt10m_avg", "wg_pt1h_max", "pa_pt1m_avg"}

\* what tells one station's body from another's: its temperature, in hundredths
StationTag(i) == 100 * i

\* ranges with only the temperature and the wind speed set
ObsRanges(ta, ws) ==
    [k \in ObsKeys |-> IF k = "ta_pt1m_avg" THEN ta
                       ELSE IF k = "ws_pt10m_avg" THEN ws ELSE Absent]

\* the bodies station i can be served: two time steps with a temperature in both,
\* or with a wind speed in the first only; or no body (the request fails)
StationResponses(i) ==
    {[ok |-> TRUE, t |-> Ascending(2),
      ranges |-> ObsRanges(Present(<<StationTag(i) + 1, StationTag(i)>>), Present(<<Null, Null>>))],
     [ok |-> TRUE, t |-> Ascending(2), ranges |-> ObsRanges(Absent, Present(<<700, Null>>))],
     [ok |-> FALSE, t |-> <<>>, ranges |-> ObsRanges(Absent, Absent)]}

StationsServed ==
    {f \in [StationIndexes -> UNION {StationResponses(i) : i \in StationIndexes}] :
        \A i \in StationIndexes : f[i] \in StationResponses(i)}

NoneStationServed ==
    [i \in StationIndexes |-> [ok |-> FALSE, t |-> <<>>, ranges |-> ObsRanges(Absent, Absent)]]

\* ranges.<key>?.values[i]
ObsValue(r, key, i) ==
    IF r.ranges[key].present THEN At(r.ranges[key].values, i) ELSE Undefined

\* hasAllValues: some parameter has a value at index i
HasAllValues(r, i) ==
    \E key \in ObsKeys : ObsValue(r, key, i) # Null /\ ObsValue(r, key, i) # Undefined

\* the last index with a value, timeValues.length - 1 when there is none
SelectedIndex(r) ==
    LET hits == {i \in 0..(Len(r.t) - 1) : HasAllValues(r, i)}
    IN  IF hits = {} THEN Len(r.t) - 1
        ELSE CHOOSE i \in hits : \A j \in hits : j <= i

getStationObservations(r) ==
    [temperature |-> ObsValue(r, "ta_pt1m_avg", SelectedIndex(r)),
     windSpeed |-> ObsValue(r, "ws_pt10m_avg", SelectedIndex(r)),
     windDirection |-> ObsValue(r, "wd_pt10m_avg", SelectedIndex(r)),
     gustSpeed |-> ObsValue(r, "wg_pt1h_max", SelectedIndex(r)),
     pressure |-> ObsValue(r, "pa_pt1m_avg", SelectedIndex(r)),
     timestamp |-> At(r.t, SelectedIndex(r))]

\* the observations of a rejected branch: only a timestamp
NoObservations ==
    [temperature |-> Undefined, windSpeed |-> Undefined, windDirection |-> Undefined,
     gustSpeed |-> Undefined, pressure |-> Undefined, timestamp |-> Now]

\* branch: the state of each station's promise; value: what a fulfilled one
\* returned; settled: a history field, the order in which the branches settled
StationsInit ==
    stationsCall = [pc |-> "idle", outcome |-> "none", results |-> <<>>,
                    branch |-> [i \in StationIndexes |-> "none"],
                    value |-> [i \in StationIndexes |-> None],
                    settled |-> <<>>]

\* the requests are issued; await Promise.allSettled
StationsStart ==
    /\ stationsCall.pc = "idle"
    /\ stationsCall.outcome = "none"
    /\ stationsCall' = [stationsCall EXCEPT !.pc = "awaiting",
                            !.branch = [i \in StationIndexes |-> "pending"]]
    /\ UNCHANGED <<seriesVars, dailyVars, gridVars, average, served, batch,
                   stationServed, search, current, restVars>>

\* one station's request settles, in any order
StationSettle(i) ==
    /\ stationsCall.branch[i] = "pending"
    /\ stationsCall' =
          IF stationServed[i].ok
          THEN [stationsCall EXCEPT
                  !.branch[i] = "fulfilled",
                  !.value[i] = Some([station |-> GULF_OF_FINLAND_STATIONS[i],
                                     observations |-> getStationObservations(stationServed[i])]),
                  !.settled = Append(@, i)]
          ELSE [stationsCall EXCEPT !.branch[i] = "rejected", !.settled = Append(@, i)]
    /\ UNCHANGED <<seriesVars, dailyVars, gridVars, average, served, batch,
                   stationServed, search, current, restVars>>

\* the entries taken in the order in which the branches settled
StationResultInSettlingOrder(index) ==
    LET from == stationsCall.settled[index]
    IN  IF stationsCall.branch[from] = "fulfilled"
        THEN stationsCall.value[from][1] @@ [error |-> NoError]
        ELSE [station |-> GULF_OF_FINLAND_STATIONS[from],
              observations |-> NoObservations,
              error |-> "Failed to fetch observations for station"]
\* results.map((result, index) => ...): allSettled keeps the order of its input
StationResult(index) ==
    IF stationsCall.branch[index] = "fulfilled"
    THEN stationsCall.value[index][1] @@ [error |-> NoError]
    ELSE [station |-> GULF_OF_FINLAND_STATIONS[index],
          observations |-> NoObservations,
          error |-> "Failed to fetch observations for station"]

\* every branch has settled: the promise resolves with one entry per station
StationsSettle ==
    /\ stationsCall.pc = "awaiting"
    /\ \A i \in StationIndexes : stationsCall.branch[i] \in {"fulfilled", "rejected"}
    /\ stationsCall' = [stationsCall EXCEPT
                          !.pc = "idle", !.outcome = "resolved",
                          !.results = [i \in StationIndexes |-> StationResult(i)]]
    /\ UNCHANGED <<seriesVars, dailyVars, gridVars, average, served, batch,
                   stationServed, search, current, restVars>>

----------------------------------------------------------------------------
(* App (city search view).fetchWeatherData, call by call: the search bar stays
   usable while a call is in flight, so calls overlap *)

MaxCalls == 2       \* calls of fetchWeatherData issued in one behaviour
TIMEOUT_MS == 5000

\* waiting: calls suspended at `await Promise.race`; abandoned: requests still in
\* flight whose call lost the race to its timer; issued, last and elapsed are
\* history fields: the calls made, how the latest finished call ended, and the
\* milliseconds the latest abandoned request had been running when its call gave up
SearchInit ==
    search = [weatherData |-> None, loading |-> FALSE, error |-> NoError,
              waiting |-> 0, abandoned |-> 0, issued |-> 0,
              origin |-> "none", last |-> "none", elapsed |-> 0]

\* handleCitySelect or the mount effect: setLoading(true); setError(null); the
\* request and the timer are started
SearchCall ==
    /\ search.issued < MaxCalls
    /\ search' = [search EXCEPT !.loading = TRUE, !.error = NoError,
                                !.waiting = @ + 1, !.issued = @ + 1]
    /\ UNCHANGED <<seriesVars, dailyVars, gridVars, average, served, batch,
                   stationServed, stationsCall, current, restVars>>

\* the mock fallback below the first try block, with its finally
SearchFallback(how) ==
    [search EXCEPT !.weatherData = Some(extractWeatherData(getMockWeatherData, HOURLY_COUNT)),
                   !.error = NoError, !.loading = FALSE,
                   !.waiting = @ - 1, !.origin = "mock", !.last = how]

\* a call's request settles before its timer: the data is extracted and stored, or
\* the rejection or the TypeError is caught and the fallback runs
SearchSettle ==
    /\ search.waiting > 0
    /\ search' = IF FetchRejects(response) \/ ExtractThrows(response)
                 THEN SearchFallback("error")
                 ELSE [search EXCEPT
                         !.weatherData = Some(extractWeatherData(response, HOURLY_COUNT)),
                         !.loading = FALSE, !.waiting = @ - 1,
                         !.origin = "live", !.last = "live"]
    /\ UNCHANGED <<seriesVars, dailyVars, gridVars, average, served, batch,
                   stationServed, stationsCall, current, restVars>>

\* a call's timer fires first: Promise.race rejects, the fallback runs, and the
\* request stays in flight with nothing waiting for it
SearchTimeout ==
    /\ search.waiting > 0
    /\ search' = [SearchFallback("timeout") EXCEPT !.abandoned = @ + 1,
                                                   !.elapsed = TIMEOUT_MS]
    /\ UNCHANGED <<seriesVars, dailyVars, gridVars, average, served, batch,
                   stationServed, stationsCall, current, restVars>>

LateResponseApplied ==
    IF FetchRejects(response) \/ ExtractThrows(response)
    THEN [search EXCEPT !.abandoned = @ - 1]
    ELSE [search EXCEPT !.weatherData = Some(extractWeatherData(response, HOURLY_COUNT)),
                        !.origin = "live", !.abandoned = @ - 1]
\* the race is already decided: a request that settles now has no continuation
LateResponse == [search EXCEPT !.abandoned = @ - 1]

\* an abandoned request settles after its call has given up
SearchLateArrival ==
    /\ search.abandoned > 0
    /\ search' = LateResponse
    /\ UNCHANGED <<seriesVars, dailyVars, gridVars, average, served, batch,
                   stationServed, stationsCall, current, restVars>>

----------------------------------------------------------------------------
(* weatherService.fetchCurrentWeather *)

\* getPositionData throws, or data.ranges.Temperature / data.domain.axes.t.values[0]
\* throws a TypeError
CurrentThrows(r) == r.shape \in {"fetchFail", "nullBody", "noRanges", "noT", "noTValues"}

\* the first time step; humidity is read like windSpeed and left out
CurrentWeather(r) ==
    LET cloudCover == At(OnlyKey(r, "TotalCloudCover"), 0)
    IN  [temperature |-> Coalesce(At(OnlyKey(r, "Temperature"), 0), 0),
         weatherSymbol |-> IF cloudCover # Undefined
                           THEN SymbolFromCloudCover(ToNumber(cloudCover), 1)
                           ELSE 1,
         windSpeed |-> At(OnlyKey(r, "WindSpeedMS"), 0),
         cloudCover |-> cloudCover,
         timestamp |-> IF r.shape = "tNotArray" THEN NotATime ELSE At(r.t, 0)]

CurrentInit == current = [pc |-> "idle", outcome |-> "none", weather |-> None]

\* the call is made and suspends at the await
CurrentStart ==
    /\ current.pc = "idle"
    /\ current' = [current EXCEPT !.pc = "awaiting"]
    /\ UNCHANGED <<seriesVars, dailyVars, gridVars, average, served, batch,
                   stationServed, stationsCall, search, restVars>>

\* the promise settles
CurrentSettle ==
    /\ current.pc = "awaiting"
    /\ current' = IF CurrentThrows(response)
                  THEN [pc |-> "idle", outcome |-> "rejected", weather |-> None]
                  ELSE [pc |-> "idle", outcome |-> "resolved",
                        weather |-> Some(CurrentWeather(response))]
    /\ UNCHANGED <<seriesVars, dailyVars, gridVars, average, served, batch,
                   stationServed, stationsCall, search, restVars>>

----------------------------------------------------------------------------
(* Hourly responses around a UTC midnight, with weather symbols and cloud cover *)

MaxHours == 4      \* hours covered by an hourly response

\* the covered hours start two hours before the midnight that ends day 0
FirstHour == HoursPerDay - 2
LastHour == FirstHour + MaxHours - 1

\* the hours a..b as a time axis, ascending or descending
HourAxis(a, b, ascending) ==
    [i \in 1..(b - a + 1) |-> IF ascending THEN a + i - 1 ELSE b - i + 1]

HourAxes ==
    {HourAxis(a, b, asc) : a \in FirstHour..LastHour, b \in FirstHour..LastHour,
                           asc \in BOOLEAN}

SymbolVals == {Null, 1, 2}

\* one temperature per hour, in hundredths; the first value sent may be null
HourlyTemps(t, nullFirst) ==
    [i \in 1..Len(t) |-> IF nullFirst /\ i = 1 THEN Null ELSE 10 * t[i]]

\* TotalCloudCover: not sent, sent whole, or sent one value short
CloudChoices(n) ==
    {Absent, Present([i \in 1..n |-> 10]), Present([i \in 1..(n - 1) |-> 10])}

HourlyRanges(temps, symbols, clouds) ==
    [k \in ParamKeys |-> IF k = "Temperature" THEN Present(temps)
                         ELSE IF k = "weathersymbol3" THEN Present(symbols)
                         ELSE IF k = "TotalCloudCover" THEN clouds
                         ELSE Absent]

HourlyResponses ==
    UNION {{[shape |-> "ok", t |-> t,
             ranges |-> HourlyRanges(HourlyTemps(t, nullFirst), symbols, clouds)] :
                nullFirst \in BOOLEAN, symbols \in [1..Len(t) -> SymbolVals],
                clouds \in CloudChoices(Len(t))} :
           t \in HourAxes}
    \cup Malformed({TempRanges(Absent, Present(<<520>>))})

----------------------------------------------------------------------------
(* edrApi.getPositionData and edrApi.getAreaData *)

\* HTTP statuses the server answers with
Statuses == {200, 204, 299, 301, 304, 400, 404, 500, 503}

\* what the response carries: a JSON document, the JSON text null, or no JSON
Bodies == {"coverage", "null", "notJson"}

\* the network call raises, or the server answers with a status and a body
Wires ==
    {[raises |-> TRUE, status |-> 0, body |-> "notJson"]}
    \cup {[raises |-> FALSE, status |-> st, body |-> b] : st \in Statuses, b \in Bodies}

EdrKinds == {"position", "area"}

\* Response.ok as a stricter test that would take every status below 400
HttpOkBelow400(status) == status < 400
\* Response.ok: the status is in the range 200-299
HttpOk(status) == 200 <= status /\ status <= 299

EdrPending == [pc |-> "idle", outcome |-> "none", value |-> None, error |-> NoError]

EdrInit == edr = [kind \in EdrKinds |-> EdrPending]

\* what the promise of one call settles to: await fetch(url) throws, or
\* !response.ok throws, or response.json() rejects or resolves
EdrOutcome(kind, w) ==
    IF w.raises
    THEN [pc |-> "idle", outcome |-> "rejected", value |-> None,
          error |-> "TypeError: Failed to fetch"]
    ELSE IF ~HttpOk(w.status)
    THEN [pc |-> "idle", outcome |-> "rejected", value |-> None,
          error |-> "Failed to fetch " \o kind \o " data"]
    ELSE IF w.body = "notJson"
    THEN [pc |-> "idle", outcome |-> "rejected", value |-> None, error |-> "SyntaxError"]
    ELSE [pc |-> "idle", outcome |-> "resolved", value |-> Some(w.body), error |-> NoError]

\* the function is called and suspends at await fetch(url)
EdrCall(kind) ==
    /\ edr[kind].pc = "idle"
    /\ edr' = [edr EXCEPT ![kind] = [EdrPending EXCEPT !.pc = "awaiting"]]
    /\ UNCHANGED <<oldVars, wire, pickVars, animVars, mapVars>>

\* the request settles and the function runs to its end
EdrSettle(kind) ==
    /\ edr[kind].pc = "awaiting"
    /\ edr' = [edr EXCEPT ![kind] = EdrOutcome(kind, wire)]
    /\ UNCHANGED <<oldVars, wire, pickVars, animVars, mapVars>>

\* the wire of the specifications that make no call through this model
NoWire == [raises |-> TRUE, status |-> 0, body |-> "notJson"]

----------------------------------------------------------------------------
(* App (city search view): handleCitySelect while earlier calls are in flight,
   each call with the city it was made for *)

MaxSelections == 2  \* cities the user selects after the view has mounted

\* the cities of data/cities that are selected, the first being getDefaultCity()
PickedCities == <<"Helsinki", "Espoo", "Tampere">>
CityNames == {PickedCities[i] : i \in 1..Len(PickedCities)}

\* the temperature the server holds for a city, in hundredths
CityTag(city) == 100 * (CHOOSE i \in 1..Len(PickedCities) : PickedCities[i] = city)

\* what the position query of a city is answered with: a coverage of that city, or
\* a failure
CityResponse(city, shape) ==
    [shape |-> shape, t |-> <<Now>>,
     ranges |-> TempRanges(Absent, Present(<<CityTag(city)>>))]

CitiesServed ==
    {[c \in CityNames |-> CityResponse(c, shapes[c])] :
        shapes \in [CityNames -> {"ok", "fetchFail"}]}

NoCityServed == [c \in CityNames |-> NoResponse]

\* what one call of fetchWeatherData stores when its request settles: the extracted
\* response, or the extracted mock data when the request or the extraction fails
PickerResult(r) ==
    IF FetchRejects(r) \/ ExtractThrows(r)
    THEN extractWeatherData(getMockWeatherData, HOURLY_COUNT)
    ELSE extractWeatherData(r, HOURLY_COUNT)

\* calls: every call made, with its city and whether its request is still in flight;
\* shown is a history field: the call whose result is displayed
PickerInit ==
    picker = [selectedCity |-> "none", weatherData |-> None, loading |-> FALSE,
              error |-> NoError, calls |-> <<>>, shown |-> 0]

\* fetchWeatherData(city) up to its await: setLoading(true); setError(null)
PickerCall(city) ==
    [picker EXCEPT !.selectedCity = city, !.loading = TRUE, !.error = NoError,
                   !.calls = Append(@, [city |-> city, inFlight |-> TRUE])]

\* the mount effect: setSelectedCity(defaultCity); fetchWeatherData(defaultCity)
PickerMount ==
    /\ picker.calls = <<>>
    /\ picker' = PickerCall(PickedCities[1])
    /\ UNCHANGED <<oldVars, fetchVars, cityServed, animVars, mapVars>>

\* handleCitySelect: setSelectedCity(city); fetchWeatherData(city)
handleCitySelect(city) ==
    /\ picker.calls # <<>>
    /\ Len(picker.calls) <= MaxSelections
    /\ picker' = PickerCall(city)
    /\ UNCHANGED <<oldVars, fetchVars, cityServed, animVars, mapVars>>

\* the request of call i settles and the call runs to its end: setWeatherData, then
\* setLoading(false); the fallback path also runs setError(null)
PickerArrive(i) ==
    /\ i \in 1..Len(picker.calls)
    /\ picker.calls[i].inFlight
    /\ picker' = [picker EXCEPT
                    !.weatherData = Some(PickerResult(cityServed[picker.calls[i].city])),
                    !.loading = FALSE,
                    !.error = NoError,
                    !.calls[i].inFlight = FALSE,
                    !.shown = i]
    /\ UNCHANGED <<oldVars, fetchVars, cityServed, animVars, mapVars>>

----------------------------------------------------------------------------
(* Station bodies whose time steps are complete, partial or empty *)

\* a time step carries all five parameters, only the temperature, or nothing
ObsPatterns == {"all", "onlyTemperature", "none"}

ObsStep(pattern, key, v) ==
    IF pattern = "all" \/ (pattern = "onlyTemperature" /\ key = "ta_pt1m_avg")
    THEN v ELSE Null

\* a body of two time steps for station i; the values tell the steps apart
PatternResponse(i, earlier, later) ==
    [ok |-> TRUE, t |-> Ascending(2),
     ranges |-> [k \in ObsKeys |->
                    Present(<<ObsStep(earlier, k, StationTag(i) + 1),
                              ObsStep(later, k, StationTag(i) + 2)>>)]]

PatternServed ==
    {[i \in StationIndexes |-> PatternResponse(i, p[i][1], p[i][2])] :
        p \in [StationIndexes -> ObsPatterns \X ObsPatterns]}

----------------------------------------------------------------------------
(* RainForecastGIF: the animation controls, the interval and the reloads *)

MaxLiveSteps == 2   \* most time steps a live response carries
MaxReloads == 2     \* calls of fetchPrecipitationData after the first

\* the lengths setTimeSteps can be given: the time axis of a live response, or the
\* steps of generateDemoData
LoadedLengths == 0..MaxLiveSteps \cup {DemoShape(GRID_RESOLUTION2).steps}

\* interval: the timeSteps.length the running interval's callback closed over;
\* stale: a state the animation effect depends on was changed by a timer or a promise
\* continuation and the effect has not run again yet (such effects run after the
\* render is committed and painted); loads: the calls made
PlayerInit ==
    player = [timeSteps |-> <<>>, currentTimeIndex |-> 0, isPlaying |-> FALSE,
              loading |-> FALSE, interval |-> None, stale |-> FALSE, loads |-> 0]

\* the player controls are rendered, and effects that were pending have run before
\* the click or the drag is handled
ControlsShown == ~player.loading /\ Len(player.timeSteps) > 0 /\ ~player.stale

\* the interval the animation effect leaves behind: the old one is cleared and, when
\* playing with time steps, a new one is set whose callback sees this render's length
IntervalFor(isPlaying, timeSteps) ==
    IF isPlaying /\ Len(timeSteps) > 0 THEN Some(Len(timeSteps)) ELSE None

\* fetchPrecipitationData is called, by the mount effect or by the refresh button
PlayerLoad ==
    /\ ~player.loading
    /\ player.loads = 0 \/ ControlsShown
    /\ player.loads <= MaxReloads
    /\ player' = [player EXCEPT !.loading = TRUE, !.loads = @ + 1]
    /\ UNCHANGED <<oldVars, fetchVars, pickVars, mapVars>>

\* the call runs to its end: setTimeSteps(steps); setCurrentTimeIndex(0);
\* setLoading(false), rendered together; the effect is left to run later when the
\* length changed
PlayerSettle ==
    /\ player.loading
    /\ \E n \in LoadedLengths :
          player' = [player EXCEPT
                       !.timeSteps = [k \in 1..n |-> k],
                       !.currentTimeIndex = 0,
                       !.loading = FALSE,
                       !.stale = @ \/ n # Len(player.timeSteps)]
    /\ UNCHANGED <<oldVars, fetchVars, pickVars, mapVars>>

\* a click: the render and the effect run before the handler's event ends
handlePlayPause ==
    /\ ControlsShown
    /\ player' = [player EXCEPT
                    !.isPlaying = ~@,
                    !.interval = IntervalFor(~player.isPlaying, player.timeSteps)]
    /\ UNCHANGED <<oldVars, fetchVars, pickVars, mapVars>>

\* the slider offers min 0 to max timeSteps.length - 1
handleSliderChange(value) ==
    /\ ControlsShown
    /\ value \in 0..(Len(player.timeSteps) - 1)
    /\ player' = [player EXCEPT !.currentTimeIndex = value, !.isPlaying = FALSE,
                                !.interval = None]
    /\ UNCHANGED <<oldVars, fetchVars, pickVars, mapVars>>

\* the effect on [isPlaying, timeSteps.length] runs after a render it was left
\* pending by
AnimationEffect ==
    /\ player.stale
    /\ player' = [player EXCEPT
                    !.interval = IntervalFor(player.isPlaying, player.timeSteps),
                    !.stale = FALSE]
    /\ UNCHANGED <<oldVars, fetchVars, pickVars, mapVars>>

\* the interval fires: prev >= timeSteps.length - 1 ? (setIsPlaying(false), 0) : prev + 1
\* with the length the callback closed over
AnimationTick ==
    /\ player.interval # None
    /\ player' = IF player.currentTimeIndex >= player.interval[1] - 1
                 THEN [player EXCEPT !.currentTimeIndex = 0, !.isPlaying = FALSE,
                                     !.stale = @ \/ player.isPlaying]
                 ELSE [player EXCEPT !.currentTimeIndex = @ + 1]
    /\ UNCHANGED <<oldVars, fetchVars, pickVars, mapVars>>

----------------------------------------------------------------------------
(* The server between two refreshes of a view *)

\* what a refreshing view can be served: one or two hourly temperatures, or a failure
RefreshResponses ==
    {[shape |-> "ok", t |-> Ascending(Len(v)), ranges |-> TempRanges(Absent, Present(v))] :
        v \in {<<520>>, <<0, 520>>, <<Null, 0>>}}
    \cup Malformed({TempRanges(Absent, Present(<<520>>))})

\* the server's answer to the next request differs from its answer to the last
ResponseChanges ==
    /\ response' \in RefreshResponses \ {response}
    /\ UNCHANGED <<chart, app, helsinki, cityWeather, dailyVars, gridVars, moreVars>>

----------------------------------------------------------------------------
(* activitySuggestions.getActivitySuggestion and ActivityMap (FinlandMap.tsx) *)

MaxCities == 3     \* cities each of the two city maps asks for

\* the first cities of FINNISH_CITIES
FINNISH_CITIES == <<"Helsinki", "Turku", "Tampere", "Oulu">>

Cities == 1..MaxCities

\* temperatures of this view are in hundredths of a degree
Degrees(d) == d * 100

\* the activity of the suggestion; the emoji and the description go with it
getActivitySuggestion(weatherSymbol, temperature) ==
    IF weatherSymbol >= 61 /\ weatherSymbol <= 64 THEN "Stay Indoors"
    ELSE IF \/ (weatherSymbol >= 41 /\ weatherSymbol <= 43)
            \/ (weatherSymbol >= 51 /\ weatherSymbol <= 53)
    THEN IF temperature < 0 THEN "Skiing"
         ELSE IF temperature >= 0 /\ temperature <= Degrees(2) THEN "Snowman"
         ELSE "Stay Cozy"
    ELSE IF \/ (weatherSymbol >= 21 /\ weatherSymbol <= 23)
            \/ (weatherSymbol >= 31 /\ weatherSymbol <= 33)
    THEN IF temperature >= Degrees(15) THEN "Swimming"
         ELSE IF temperature > Degrees(5) THEN "Indoor Activities"
         ELSE "Stay Cozy"
    ELSE IF \/ (weatherSymbol >= 71 /\ weatherSymbol <= 73)
            \/ (weatherSymbol >= 81 /\ weatherSymbol <= 83)
    THEN "Stay Indoors"
    ELSE IF weatherSymbol >= 91 /\ weatherSymbol <= 92 THEN "Cafe Visit"
    ELSE IF weatherSymbol = 1
    THEN IF temperature >= Degrees(25) THEN "Beach Day"
         ELSE IF temperature >= Degrees(15) THEN "Cycling"
         ELSE IF temperature >= Degrees(5) THEN "Walking"
         ELSE IF temperature < 0 THEN "Ice Skating"
         ELSE "Outdoor Walk"
    ELSE IF weatherSymbol = 2
    THEN IF temperature >= Degrees(20) THEN "Sports"
         ELSE IF temperature >= Degrees(10) THEN "Jogging"
         ELSE IF temperature >= 0 THEN "Walking"
         ELSE "Winter Sports"
    ELSE IF temperature >= Degrees(15) THEN "Outdoor Activities"
    ELSE IF temperature >= Degrees(5) THEN "Light Activity"
    ELSE IF temperature >= 0 THEN "Casual Outing"
    ELSE "Indoor Activities"

\* weatherSymbols of loadDemoData
DemoSymbols == <<1, 2, 3, 31, 51, 2, 1, 3, 31, 2, 51, 1, 51, 41>>

\* 20 - (city.lat - 60) * 2 + Math.sin(index) * 5 for the first cities, in hundredths
DemoTemperatures == <<1966, 2330, 2155, 1068>>

\* the temperature and the symbol the server has for city i
LiveTemperature(i) == Degrees(5 * i - 7)
LiveSymbol(i) == DemoSymbols[i]

\* ranges with the two keys of the activity map set
TwoRanges(tempKey, symbolKey, i) ==
    [k \in ParamKeys |-> IF k = tempKey THEN Present(<<LiveTemperature(i)>>)
                         ELSE IF k = symbolKey THEN Present(<<LiveSymbol(i)>>)
                         ELSE Absent]

\* the bodies city i can be served: the two parameters under lower-case keys, the two
\* parameters under the capitalised keys of the query, or none (the request fails)
ActivityBodies(i) ==
    {[shape |-> "ok", t |-> Ascending(1),
      ranges |-> TwoRanges("temperature", "weathersymbol3", i)],
     [shape |-> "ok", t |-> Ascending(1),
      ranges |-> TwoRanges("Temperature", "WeatherSymbol3", i)],
     [shape |-> "fetchFail", t |-> <<>>, ranges |-> TempRanges(Absent, Absent)]}

RECURSIVE BodiesUpTo(_)
\* every way to serve the cities 1..n
BodiesUpTo(n) ==
    IF n = 0 THEN {<<>>}
    ELSE {Append(f, b) : f \in BodiesUpTo(n - 1), b \in ActivityBodies(n)}

AllCityBodies == BodiesUpTo(MaxCities)

NoBodies == [i \in Cities |-> [shape |-> "fetchFail", t |-> <<>>,
                               ranges |-> TempRanges(Absent, Absent)]]

\* data.ranges?.<key>?.values?.[0]
FirstOptional(r, key) == IF r.shape = "noRanges" THEN Undefined ELSE At(OnlyKey(r, key), 0)

\* FINNISH_CITIES.map(city => ({ ...city, loading: true }))
LoadingCity(i) == [name |-> FINNISH_CITIES[i], activity |-> None, temperature |-> None,
                   loading |-> TRUE, error |-> NoError]

\* what the branch of city i returns
ActivityBranch(i, r) ==
    IF FetchRejects(r) \/ r.shape = "nullBody"
    THEN [LoadingCity(i) EXCEPT !.loading = FALSE, !.error = "Failed to fetch"]
    ELSE IF /\ FirstOptional(r, "temperature") # Undefined
            /\ FirstOptional(r, "weathersymbol3") # Undefined
    THEN [LoadingCity(i) EXCEPT
            !.activity = Some(getActivitySuggestion(FirstOptional(r, "weathersymbol3"),
                                                    FirstOptional(r, "temperature"))),
            !.temperature = Some(FirstOptional(r, "temperature")),
            !.loading = FALSE]
    ELSE [LoadingCity(i) EXCEPT !.loading = FALSE, !.error = "No data"]

ActivityInit ==
    activityMap = [pc |-> "idle",
                   results |-> [i \in Cities |-> None],
                   citiesWeather |-> [i \in Cities |-> LoadingCity(i)],
                   hasError |-> FALSE]

\* the effect runs on mount: every city's request is made
fetchWeatherForCities ==
    /\ activityMap.pc = "idle"
    /\ activityMap' = [activityMap EXCEPT !.pc = "awaiting"]
    /\ UNCHANGED <<oldVars, fetchVars, pickVars, animVars, cityBodies, xmasVars>>

\* the request of city i settles and its branch returns
ActivityBranchSettle(i) ==
    /\ activityMap.pc = "awaiting"
    /\ activityMap.results[i] = None
    /\ activityMap' = [activityMap EXCEPT
                         !.results[i] = Some(ActivityBranch(i, cityBodies[i]))]
    /\ UNCHANGED <<oldVars, fetchVars, pickVars, animVars, cityBodies, xmasVars>>

\* results.every(r => r.error)
allFailed(results) == \A i \in Cities : results[i][1].error # NoError

\* Promise.all resolves and the function runs to its end
ActivityJoin ==
    /\ activityMap.pc = "awaiting"
    /\ \A i \in Cities : activityMap.results[i] # None
    /\ activityMap' =
         IF allFailed(activityMap.results)
         THEN [activityMap EXCEPT !.pc = "done", !.hasError = TRUE]
         ELSE [activityMap EXCEPT
                 !.pc = "done",
                 !.citiesWeather = [i \in Cities |-> activityMap.results[i][1]]]
    /\ UNCHANGED <<oldVars, fetchVars, pickVars, animVars, cityBodies, xmasVars>>

\* the button of the alert, which is rendered while hasError is set
loadDemoData ==
    /\ activityMap.hasError
    /\ activityMap' =
         [activityMap EXCEPT
            !.citiesWeather =
                [i \in Cities |->
                    [LoadingCity(i) EXCEPT
                       !.activity = Some(getActivitySuggestion(
                           DemoSymbols[((i - 1) % Len(DemoSymbols)) + 1],
                           DemoTemperatures[i])),
                       !.temperature = Some(DemoTemperatures[i]),
                       !.loading = FALSE]],
            !.hasError = FALSE]
    /\ UNCHANGED <<oldVars, fetchVars, pickVars, animVars, cityBodies, xmasVars>>

----------------------------------------------------------------------------
(* ChristmasWeatherMaps: fetchWeatherForCity, transformToChristmasWeather and
   fetchAllWeatherData. Temperature, wind speed and precipitation are in hundredths,
   cloud cover in percent. *)

\* the first cities of FINLAND_CITIES
FINLAND_CITIES == <<"Helsinki", "Tampere", "Oulu", "Turku">>

DEFAULT_TEMPERATURE == 500
DEFAULT_WIND_SPEED == 500
DEFAULT_PRECIPITATION == 0

TEMPERATURE_REDUCTION == 1000
MIN_CHRISTMAS_TEMPERATURE == 0 - Degrees(2)
MIN_CLOUD_COVER == 85
MIN_PRECIPITATION == 500

DemoNotice == "Using demo data - Live API may not be fully accessible"

Smaller(a, b) == IF a <= b THEN a ELSE b
Larger(a, b) == IF a >= b THEN a ELSE b

\* ranges with the four keys of the Christmas maps set for city i
FourRanges(i) ==
    [k \in ParamKeys |->
        CASE k = "Temperature" -> Present(<<LiveTemperature(i)>>)
          [] k = "TotalCloudCover" -> Present(<<20 * i>>)
          [] k = "WindSpeedMS" -> Present(<<Degrees(i)>>)
          [] k = "Precipitation1h" -> Present(<<0>>)
          [] OTHER -> Absent]

\* the bodies city i can be served: the four parameters, a body with no parameter,
\* a body without ranges, or none (the request fails)
XmasBodies(i) ==
    {[shape |-> "ok", t |-> Ascending(1), ranges |-> FourRanges(i)],
     [shape |-> "ok", t |-> Ascending(1), ranges |-> TempRanges(Absent, Absent)],
     [shape |-> "noRanges", t |-> Ascending(1), ranges |-> TempRanges(Absent, Absent)],
     [shape |-> "fetchFail", t |-> <<>>, ranges |-> TempRanges(Absent, Absent)]}

RECURSIVE XmasUpTo(_)
\* every way to serve the cities 1..n
XmasUpTo(n) ==
    IF n = 0 THEN {<<>>}
    ELSE {Append(f, b) : f \in XmasUpTo(n - 1), b \in XmasBodies(n)}

AllXmasBodies == XmasUpTo(MaxCities)

\* getPositionData throws, or ranges.Temperature is read of an undefined or null
XmasThrows(r) == FetchRejects(r) \/ r.shape \in {"nullBody", "noRanges"}

\* ranges.<key>?.values[0] ?? fallback
ValueOr(r, key, fallback) == Coalesce(At(OnlyKey(r, key), 0), fallback)

\* the weather of city i from body r; u is what Math.random() returns in the catch
fetchWeatherForCity(i, r, u) ==
    IF XmasThrows(r)
    THEN [location |-> FINLAND_CITIES[i],
          temperature |-> DEFAULT_TEMPERATURE + (u * 4 - Degrees(2)),
          cloudCover |-> DEFAULT_CLOUD_COVER + ((u * 20) \div 100 - 10),
          windSpeed |-> DEFAULT_WIND_SPEED + (u * 2 - Degrees(1)),
          precipitation |-> DEFAULT_PRECIPITATION + u * 2]
    ELSE [location |-> FINLAND_CITIES[i],
          temperature |-> ValueOr(r, "Temperature", DEFAULT_TEMPERATURE),
          cloudCover |-> ValueOr(r, "TotalCloudCover", DEFAULT_CLOUD_COVER),
          windSpeed |-> ValueOr(r, "WindSpeedMS", DEFAULT_WIND_SPEED),
          precipitation |-> ValueOr(r, "Precipitation1h", DEFAULT_PRECIPITATION)]

\* WIND_SPEED_MULTIPLIER is 0.7 and PRECIPITATION_MULTIPLIER is 2
transformToChristmasWeather(weather) ==
    [weather EXCEPT
       !.temperature = Smaller(weather.temperature - TEMPERATURE_REDUCTION,
                               MIN_CHRISTMAS_TEMPERATURE),
       !.cloudCover = Larger(weather.cloudCover, MIN_CLOUD_COVER),
       !.windSpeed = (weather.windSpeed * 7) \div 10,
       !.precipitation = Larger(weather.precipitation * 2, MIN_PRECIPITATION)]

ChristmasInit ==
    christmas = [pc |-> "idle",
                 results |-> [i \in Cities |-> None],
                 currentWeatherData |-> <<>>,
                 christmasWeatherData |-> <<>>,
                 loading |-> FALSE,
                 error |-> NoError]

\* the effect runs on mount: the flags are set and every city's request is made
fetchAllWeatherData ==
    /\ christmas.pc = "idle"
    /\ christmas' = [christmas EXCEPT !.pc = "awaiting", !.loading = TRUE,
                                      !.error = NoError]
    /\ UNCHANGED <<oldVars, fetchVars, pickVars, animVars, activityVars, xmasBodies>>

\* the request of city i settles and fetchWeatherForCity returns; it never rejects
XmasBranchSettle(i) ==
    /\ christmas.pc = "awaiting"
    /\ christmas.results[i] = None
    /\ \E u \in RandomUnits :
         christmas' = [christmas EXCEPT
                         !.results[i] = Some(fetchWeatherForCity(i, xmasBodies[i], u))]
    /\ UNCHANGED <<oldVars, fetchVars, pickVars, animVars, activityVars, xmasBodies>>

\* Promise.all resolves and the function runs to its end through the finally block
XmasJoin ==
    /\ christmas.pc = "awaiting"
    /\ \A i \in Cities : christmas.results[i] # None
    /\ christmas' =
         [christmas EXCEPT
            !.pc = "done",
            !.currentWeatherData = [i \in Cities |-> christmas.results[i][1]],
            !.christmasWeatherData =
                [i \in Cities |-> transformToChristmasWeather(christmas.results[i][1])],
            !.error = DemoNotice,
            !.loading = FALSE]
    /\ UNCHANGED <<oldVars, fetchVars, pickVars, animVars, activityVars, xmasBodies>>

----------------------------------------------------------------------------
(* Initial state of every view *)

ViewsInit ==
    /\ ChartInit /\ AppInit /\ HelsinkiInit /\ CityInit
    /\ ForecastInit /\ WeeklyInit /\ QuickInit
    /\ RainInit /\ Rain2Init /\ WeatherMapInit
    /\ AverageInit
    /\ BatchInit
    /\ StationsInit
    /\ SearchInit
    /\ CurrentInit
    /\ EdrInit
    /\ PickerInit
    /\ PlayerInit
    /\ ActivityInit
    /\ ChristmasInit

\* no request is served by the environments added for the later views
MapsIdle ==
    /\ cityBodies = NoBodies
    /\ xmasBodies = NoBodies

RestIdle ==
    /\ wire = NoWire
    /\ cityServed = NoCityServed
    /\ MapsIdle

\* no request is served by the environments of the earlier views
OldIdle ==
    /\ response = NoResponse
    /\ areaResponse = NoAreaResponse
    /\ served = NoneServed
    /\ stationServed = NoneStationServed

----------------------------------------------------------------------------
(* The point-series views: TemperatureChart, App (five locations), HelsinkiWeather,
   CityWeather *)

InitSeries ==
    /\ response \in SeriesResponses
    /\ areaResponse = NoAreaResponse
    /\ ViewsInit
    /\ RestIdle
    /\ stationServed = NoneStationServed
    /\ served = NoneServed

NextSeries ==
    \/ ChartStart \/ ChartSettle
    \/ AppStart \/ AppSettle
    \/ HelsinkiStart \/ HelsinkiSettle
    \/ CityStart \/ CitySettle

SpecSeries == InitSeries /\ [][NextSeries]_vars

----------------------------------------------------------------------------
(* The daily aggregations: FiveDayForecast and fetch7DayForecast *)

InitDaily ==
    /\ response \in DailyResponses
    /\ areaResponse = NoAreaResponse
    /\ ViewsInit
    /\ RestIdle
    /\ stationServed = NoneStationServed
    /\ served = NoneServed

NextDaily ==
    \/ ForecastStart \/ ForecastSettle
    \/ WeeklyStart \/ WeeklySettle

SpecDaily == InitDaily /\ [][NextDaily]_vars

----------------------------------------------------------------------------
(* The decoders that look a parameter up under one casing or reject a body:
   extractWeatherData behind the city search view, FiveDayForecast and
   fetch7DayForecast, on the point-series responses *)

InitDecode ==
    /\ response \in SeriesResponses
    /\ areaResponse = NoAreaResponse
    /\ ViewsInit
    /\ RestIdle
    /\ stationServed = NoneStationServed
    /\ served = NoneServed

NextDecode ==
    \/ QuickStart \/ QuickSettle \/ QuickTimeout
    \/ ForecastStart \/ ForecastSettle
    \/ WeeklyStart \/ WeeklySettle

SpecDecode == InitDecode /\ [][NextDecode]_vars

----------------------------------------------------------------------------
(* The grid views: the two rain animations and the weather map *)

InitGrid ==
    /\ response = NoResponse
    /\ areaResponse \in AreaResponses
    /\ ViewsInit
    /\ RestIdle
    /\ stationServed = NoneStationServed
    /\ served = NoneServed

NextGrid ==
    \/ RainStart \/ RainSettle
    \/ Rain2Start \/ Rain2Settle
    \/ WeatherMapStart \/ WeatherMapSettle

SpecGrid == InitGrid /\ [][NextGrid]_vars

----------------------------------------------------------------------------
(* The decoders that are asked for a parameter the body may lack: TemperatureChart,
   App (five locations), getAverageTemperature *)

InitMissing ==
    /\ response \in SeriesResponses
    /\ areaResponse = NoAreaResponse
    /\ ViewsInit
    /\ RestIdle
    /\ stationServed = NoneStationServed
    /\ served = NoneServed

NextMissing ==
    \/ ChartStart \/ ChartSettle
    \/ AppStart \/ AppSettle
    \/ AverageStart \/ AverageSettle

SpecMissing == InitMissing /\ [][NextMissing]_vars

----------------------------------------------------------------------------
(* The five-location batch, branch by branch *)

InitBatch ==
    /\ response = NoResponse
    /\ areaResponse = NoAreaResponse
    /\ ViewsInit
    /\ RestIdle
    /\ stationServed = NoneStationServed
    /\ served \in ServedResponses

NextBatch ==
    \/ BatchStart
    \/ \E k \in LocationKeys : BranchSettle(k)
    \/ BatchSettle

SpecBatch == InitBatch /\ [][NextBatch]_vars

----------------------------------------------------------------------------
(* Concurrent station requests and the five-location batch *)

\* the bodies of a batch of which no branch fails
AllServed == {f \in ServedResponses : \A k \in LocationKeys : ~ForLocationThrows(f[k])}

InitKeyed ==
    /\ response = NoResponse
    /\ areaResponse = NoAreaResponse
    /\ ViewsInit
    /\ RestIdle
    /\ served \in AllServed
    /\ stationServed \in StationsServed

NextKeyed ==
    \/ BatchStart
    \/ \E k \in LocationKeys : BranchSettle(k)
    \/ BatchSettle
    \/ StationsStart
    \/ \E i \in StationIndexes : StationSettle(i)
    \/ StationsSettle

SpecKeyed == InitKeyed /\ [][NextKeyed]_vars

----------------------------------------------------------------------------
(* The views whose loading flag brackets a request: App (city search),
   HelsinkiWeather, WeatherMap *)

SearchResponses ==
    Malformed({TempRanges(Absent, Present(<<520>>))})
    \cup {[shape |-> "ok", t |-> Ascending(1), ranges |-> r] :
            r \in {TempRanges(Absent, Present(<<520>>)), TempRanges(Absent, Present(<<Null>>)),
                   TempRanges(Present(<<0>>), Absent)}}

SearchAreaResponses ==
    {r \in AreaResponses : r.shape # "ok" \/ (r.t = Ascending(1) /\ r.values = Ramp(1)
                                               /\ Len(r.x) = 1 /\ Len(r.y) = 1)}

InitSearch ==
    /\ response \in SearchResponses
    /\ areaResponse \in SearchAreaResponses
    /\ ViewsInit
    /\ RestIdle
    /\ served = NoneServed
    /\ stationServed = NoneStationServed

NextSearch ==
    \/ SearchCall \/ SearchSettle \/ SearchTimeout \/ SearchLateArrival
    \/ HelsinkiStart \/ HelsinkiSettle
    \/ WeatherMapStart \/ WeatherMapSettle

SpecSearch == InitSearch /\ [][NextSearch]_vars

----------------------------------------------------------------------------
(* The daily aggregations and the current-weather reading on hourly responses *)

InitHourly ==
    /\ response \in HourlyResponses
    /\ areaResponse = NoAreaResponse
    /\ ViewsInit
    /\ RestIdle
    /\ served = NoneServed
    /\ stationServed = NoneStationServed

NextHourly ==
    \/ ForecastStart \/ ForecastSettle
    \/ WeeklyStart \/ WeeklySettle
    \/ CurrentStart \/ CurrentSettle

SpecHourly == InitHourly /\ [][NextHourly]_vars

----------------------------------------------------------------------------
(* The two fetch functions on every outcome of the network call *)

InitFetch ==
    /\ OldIdle
    /\ ViewsInit
    /\ wire \in Wires
    /\ cityServed = NoCityServed
    /\ MapsIdle

NextFetch ==
    \/ \E kind \in EdrKinds : EdrCall(kind)
    \/ \E kind \in EdrKinds : EdrSettle(kind)

SpecFetch == InitFetch /\ [][NextFetch]_vars

----------------------------------------------------------------------------
(* City selections that overlap *)

InitPicker ==
    /\ OldIdle
    /\ ViewsInit
    /\ wire = NoWire
    /\ cityServed \in CitiesServed
    /\ MapsIdle

NextPicker ==
    \/ PickerMount
    \/ \E city \in CityNames : handleCitySelect(city)
    \/ \E i \in 1..(MaxSelections + 1) : PickerArrive(i)

SpecPicker == InitPicker /\ [][NextPicker]_vars

----------------------------------------------------------------------------
(* The station requests on bodies with complete and partial time steps *)

InitStation ==
    /\ response = NoResponse
    /\ areaResponse = NoAreaResponse
    /\ served = NoneServed
    /\ ViewsInit
    /\ RestIdle
    /\ stationServed \in PatternServed

NextStation ==
    \/ StationsStart
    \/ \E i \in StationIndexes : StationSettle(i)
    \/ StationsSettle

SpecStation == InitStation /\ [][NextStation]_vars

----------------------------------------------------------------------------
(* The rain animation under every interleaving of its controls, ticks and reloads *)

InitPlayer ==
    /\ OldIdle
    /\ ViewsInit
    /\ RestIdle

NextPlayer ==
    \/ PlayerLoad \/ PlayerSettle
    \/ handlePlayPause
    \/ \E value \in 0..(DemoShape(GRID_RESOLUTION2).steps - 1) : handleSliderChange(value)
    \/ AnimationEffect
    \/ AnimationTick

SpecPlayer == InitPlayer /\ [][NextPlayer]_vars

----------------------------------------------------------------------------
(* The periodically refreshing views, TemperatureChart and FiveDayForecast, on a
   server whose answers change *)

InitRefresh ==
    /\ response \in RefreshResponses
    /\ areaResponse = NoAreaResponse
    /\ served = NoneServed
    /\ stationServed = NoneStationServed
    /\ ViewsInit
    /\ RestIdle

NextRefresh ==
    \/ ChartStart \/ ChartSettle
    \/ ForecastStart \/ ForecastSettle
    \/ ResponseChanges

SpecRefresh == InitRefresh /\ [][NextRefresh]_vars

----------------------------------------------------------------------------
(* The activity map on every way its cities can be served *)

InitActivity ==
    /\ OldIdle
    /\ ViewsInit
    /\ wire = NoWire
    /\ cityServed = NoCityServed
    /\ cityBodies \in AllCityBodies
    /\ xmasBodies = NoBodies

NextActivity ==
    \/ fetchWeatherForCities
    \/ \E i \in Cities : ActivityBranchSettle(i)
    \/ ActivityJoin
    \/ loadDemoData

SpecActivity == InitActivity /\ [][NextActivity]_vars

----------------------------------------------------------------------------
(* The Christmas maps on every way their cities can be served *)

InitChristmas ==
    /\ OldIdle
    /\ ViewsInit
    /\ wire = NoWire
    /\ cityServed = NoCityServed
    /\ cityBodies = NoBodies
    /\ xmasBodies \in AllXmasBodies

NextChristmas ==
    \/ fetchAllWeatherData
    \/ \E i \in Cities : XmasBranchSettle(i)
    \/ XmasJoin

SpecChristmas == InitChristmas /\ [][NextChristmas]_vars

----------------------------------------------------------------------------
(* Claims about the point-series views (checked under SpecSeries) *)

Nullish(v) == v = Null \/ v = Undefined

\* C1: null propagation. Whenever the source temperature at index k is null or
\* missing (array shorter than the time axis, or parameter absent), the decoded
\* point at index k has temperature exactly null, never 0. Stated for the three
\* decoders the claim cites: the chart series, the per-location series and the
\* current-weather reading.
C1_NullPropagation ==
    /\ \A k \in 1..Len(chart.chartData) :
          Nullish(At(LowerThenUpper(response, "temperature", "Temperature"), k - 1))
              => chart.chartData[k].temperature = Null
    /\ app.origin = "live" =>
          \A loc \in LocationKeys : \A k \in 1..Len(app.weatherData[loc][1]) :
              Nullish(At(LowerThenUpper(response, "temperature", "Temperature"), k - 1))
                  => app.weatherData[loc][1][k].temperature = Null
    /\ helsinki.origin = "live" =>
          (Nullish(At(OnlyKey(response, "temperature"), 0))
              => helsinki.weatherData[1].temperature = Null)

\* the chart shows a decoded point whose source value is null or missing
C1_Witness ==
    \E k \in 1..Len(chart.chartData) :
        Nullish(At(LowerThenUpper(response, "temperature", "Temperature"), k - 1))

TemperaturePresent(r) == r.ranges["temperature"].present \/ r.ranges["Temperature"].present

C4_SyntheticIsMarked ==
    /\ app.origin = "mock" => app.error # NoError
    /\ helsinki.origin = "mock" => helsinki.error # NoError
    /\ cityWeather.origin = "mock" => cityWeather.error # NoError

----------------------------------------------------------------------------
(* Claims about parameter casing and the time axis (checked under SpecDecode) *)

OnlyLowercaseTemperature(r) ==
    r.shape = "ok" /\ r.ranges["temperature"].present /\ ~r.ranges["Temperature"].present

\* the same body with the temperature range filed under the key Temperature
UnderRequestedCasing(r) ==
    [r EXCEPT !.ranges = TempRanges(Absent, r.ranges["temperature"])]

\* the numbers of an extracted result: an unset hourly list reads as no entries
NumericOutput(w) ==
    [temperature |-> w.temperature,
     hourly |-> IF w.hourlyTemperatures = None THEN <<>> ELSE w.hourlyTemperatures[1]]

\* C2: case-insensitive resolution. A response that holds only a lowercase
\* `temperature` range decodes to the same output whether the decoder asks for
\* 'Temperature' or for 'temperature': the lookup falls back to the all-lowercase
\* key before it treats the parameter as absent. extractWeatherData and
\* fetch7DayForecast ask for 'Temperature'; what they produce from the lowercase
\* body must equal what they produce when the key is spelled as they ask.
C2_CaseInsensitive ==
    OnlyLowercaseTemperature(response) =>
        /\ quick.origin = "live" =>
              NumericOutput(quick.weatherData[1]) =
                  NumericOutput(extractWeatherData(UnderRequestedCasing(response),
                                                   HOURLY_COUNT))
        /\ weekly.outcome = "resolved" =>
              weekly.forecasts = WeeklyForecasts(UnderRequestedCasing(response))

\* C10: missing time axis. If domain.axes.t.values is absent or is not an array,
\* point/time decoding fails with an error and no decoded result reaches the
\* caller.
C10_MissingAxisFails ==
    response.shape \in {"noTValues", "tNotArray"} =>
        /\ quick.origin # "live"
        /\ ~forecast.loaded
        /\ weekly.outcome # "resolved"

----------------------------------------------------------------------------
(* Claims about daily aggregation (checked under SpecDaily) *)

\* the non-null samples of day d in the array src, in time-axis order
NonNullSamples(r, src, d) == DayValues(r.t, src, d, {Null, Undefined})

AllDayKeys(r) == InsertionOrder([i \in 1..Len(r.t) |-> DateKey(r.t[i])])

Dates(entries) == [i \in 1..Len(entries) |-> entries[i].date]

ForecastSource == LowerThenUpper(response, "temperature", "Temperature")
WeeklySource == OnlyKey(response, "Temperature")

\* C5: a day whose samples are all null does not appear in the daily output; a
\* day with at least one non-null sample appears (stated where the response has no
\* more days than the view shows), with min/max/mean computed over that day's
\* non-null samples only.
C5_AllNullDayOmitted ==
    /\ forecast.loaded =>
          /\ \A k \in 1..Len(forecast.forecastData) :
                LET e == forecast.forecastData[k]
                    vals == NonNullSamples(response, ForecastSource, e.date)
                IN  /\ vals # <<>>
                    /\ e.minTemp = MathMin(vals)
                    /\ e.maxTemp = MathMax(vals)
          /\ Len(AllDayKeys(response)) <= FORECAST_DAYS =>
                \A i \in 1..Len(response.t) :
                    NonNullSamples(response, ForecastSource, DateKey(response.t[i])) # <<>>
                        => \E k \in 1..Len(forecast.forecastData) :
                              forecast.forecastData[k].date = DateKey(response.t[i])
    /\ weekly.outcome = "resolved" =>
          /\ \A k \in 1..Len(weekly.forecasts) :
                LET e == weekly.forecasts[k]
                    vals == NonNullSamples(response, WeeklySource, e.date)
                IN  /\ vals # <<>>
                    /\ e.temperature.min = MathMin(vals)
                    /\ e.temperature.max = MathMax(vals)
                    /\ e.temperature.avg = Mean(vals)
          /\ Len(AllDayKeys(response)) <= WEEK_DAYS =>
                \A i \in 1..Len(response.t) :
                    NonNullSamples(response, WeeklySource, DateKey(response.t[i])) # <<>>
                        => \E k \in 1..Len(weekly.forecasts) :
                              weekly.forecasts[k].date = DateKey(response.t[i])

\* the full aggregated list: the days with at least one non-null sample
AggregatedDays(keys, src) ==
    SelectSeq(keys, LAMBDA d : NonNullSamples(response, src, d) # <<>>)

NoNullSample(src) == \A i \in 1..Len(src) : src[i] # Null

\* C8: the aggregation does not truncate; the days shown are exactly the first N
\* entries (N = 5, N = 7) of the full aggregated list, the list from which the
\* all-null days have already been left out. For fetch7DayForecast it is stated
\* on responses without a null sample, where its reading of null as a sample
\* (C5) does not enter.
C8_TruncationIsSlice ==
    /\ forecast.loaded =>
          Dates(forecast.forecastData) =
              Slice0(AggregatedDays(AllDayKeys(response), ForecastSource), FORECAST_DAYS)
    /\ (weekly.outcome = "resolved" /\ NoNullSample(WeeklySource)) =>
          Dates(weekly.forecasts) =
              Slice0(AggregatedDays(SortAscending(AllDayKeys(response)), WeeklySource),
                     WEEK_DAYS)

StrictlyAscending(a) == \A i, j \in 1..Len(a) : i < j => a[i] < a[j]

\* C9: the daily output is ordered by ascending date and each date appears once,
\* for every input time series, sorted or not.
C9_AscendingDates ==
    /\ forecast.loaded => StrictlyAscending(Dates(forecast.forecastData))
    /\ weekly.outcome = "resolved" => StrictlyAscending(Dates(weekly.forecasts))

----------------------------------------------------------------------------
(* Claims about the grid views *)

AxisX == areaResponse.x
AxisY == areaResponse.y
CellsOf(n) == 0..(n - 1)

\* the grid holds one point per coordinate pair, row by row, with the axes' coordinates
FullGrid(grid) ==
    /\ Len(grid) = Len(AxisX) * Len(AxisY)
    /\ \A yIdx \in CellsOf(Len(AxisY)), xIdx \in CellsOf(Len(AxisX)) :
          LET pos == yIdx * Len(AxisX) + xIdx + 1
          IN  pos \in DOMAIN grid
              => /\ grid[pos].lon = AxisX[xIdx + 1]
                 /\ grid[pos].lat = AxisY[yIdx + 1]

\* C6: the decoded grid of one time step has exactly |x|*|y| points, one per
\* coordinate pair, row by row (y outer, x inner); the point at (yIdx, xIdx) has
\* longitude x.values[xIdx] and latitude y.values[yIdx].
C6_GridShape ==
    /\ rain.origin = "live" =>
          \A s \in DOMAIN rain.timeSteps : FullGrid(rain.timeSteps[s].gridData)
    /\ rain2.origin = "live" =>
          \A s \in DOMAIN rain2.timeSteps : FullGrid(rain2.timeSteps[s].gridData)
    /\ weatherMap.loaded => FullGrid(weatherMap.weatherData)

\* values[t*(|y|*|x|) + y*|x| + x], null beyond the end of the array
SourceValue(t, y, x) ==
    LET index == t * (Len(AxisY) * Len(AxisX)) + y * Len(AxisX) + x
    IN  IF index < Len(areaResponse.values) THEN areaResponse.values[index + 1] ELSE Null

AboveThreshold(v) == IF v # Null /\ v > 1 THEN v ELSE Null

\* every cell of every time step of a rain view holds its source value, as it is
\* or cut at the threshold
RainCellsAre(view, thresholded) ==
    view.origin = "live" =>
       \A s \in DOMAIN view.timeSteps :
          \A y \in CellsOf(Len(AxisY)), x \in CellsOf(Len(AxisX)) :
             LET grid == view.timeSteps[s].gridData
                 pos == y * Len(AxisX) + x + 1
             IN  /\ pos \in DOMAIN grid
                 /\ grid[pos].value = IF thresholded THEN AboveThreshold(SourceValue(s - 1, y, x))
                                                   ELSE SourceValue(s - 1, y, x)

MapPointsAt(y, x) ==
    {i \in DOMAIN weatherMap.weatherData :
        /\ weatherMap.weatherData[i].lat = AxisY[y + 1]
        /\ weatherMap.weatherData[i].lon = AxisX[x + 1]}

\* a response that is well formed is decoded, whatever the length of its values
NoDecodeError ==
    areaResponse.shape = "ok" =>
        /\ rain.origin # "demo" /\ rain2.origin # "demo"
        /\ weatherMap.error = NoError

----------------------------------------------------------------------------
(* Claims about a parameter the body lacks (checked under SpecMissing) *)

TemperatureMissing(r) == r.shape = "ok" /\ ~TemperaturePresent(r)

\* C11: missing parameter. When the requested temperature is absent from ranges
\* under either casing of its key, decoding does not fail and the temperature
\* field is null at every time index of the output.
C11_MissingParameterIsNull ==
    TemperatureMissing(response) =>
        /\ \A k \in 1..Len(chart.chartData) : chart.chartData[k].temperature = Null
        /\ chart.error = NoError
        /\ app.origin # "mock"
        /\ app.origin = "live" =>
              \A loc \in LocationKeys : \A k \in 1..Len(app.weatherData[loc][1]) :
                  app.weatherData[loc][1][k].temperature = Null
        /\ average.outcome # "rejected"

\* the chart has decoded a body of at least one time step that has no temperature
C11_Witness ==
    /\ TemperatureMissing(response)
    /\ Len(response.t) > 0
    /\ Len(chart.chartData) = Len(response.t)

----------------------------------------------------------------------------
(* Claims about the per-location series (checked under SpecSeries) *)

\* C12: index alignment. For a valid point response whose time axis has n entries
\* the decoded series of every location has exactly n points, and point i carries
\* the time of entry i of the axis: the source order is kept, nothing is dropped.
C12_IndexAligned ==
    (app.origin # "none" /\ response.shape = "ok") =>
        /\ app.origin = "live"
        /\ \A loc \in LocationKeys :
              LET points == app.weatherData[loc][1]
              IN  /\ Len(points) = Len(response.t)
                  /\ \A i \in 1..Len(points) :
                        /\ points[i].time = response.t[i]
                        /\ points[i].timestamp = GetTime(response.t[i])

\* a live series decoded from a time axis that is in descending order
C12_Witness ==
    /\ app.origin = "live"
    /\ Len(response.t) = 2
    /\ response.t[1] > response.t[2]
    /\ app.weatherData["utsjoki"][1][1].time > app.weatherData["utsjoki"][1][2].time

----------------------------------------------------------------------------
(* Claims about the five-location batch (checked under SpecBatch) *)

SomeBranchFails == \E k \in LocationKeys : ForLocationThrows(served[k])

\* C13: all-or-nothing fallback. If the fetch or the decoding of any one location
\* fails, then once the batch has settled every location shows synthetic data and
\* none shows a live result of the batch, in whatever order the branches complete.
C13_AllOrNothing ==
    (batch.origin # "none" /\ SomeBranchFails) =>
        /\ batch.origin = "mock"
        /\ \A k \in LocationKeys :
              /\ batch.weatherData[k] = Some(generateMockData(MockBaseTemp[k]))
              /\ batch.weatherData[k] # Some(TransformedData(served[k]))

\* the batch fell back although a branch had been fulfilled before the failing
\* branch settled
C13_Witness ==
    /\ batch.origin = "mock" /\ batch.pc = "idle"
    /\ Len(batch.settled) >= 2
    /\ batch.branch[batch.settled[1]] = "fulfilled"
    /\ batch.result[batch.settled[1]] # None
    /\ batch.branch[batch.settled[2]] = "rejected"

----------------------------------------------------------------------------
(* Claims about concurrent requests (checked under SpecKeyed) *)

\* the temperature a station's own body yields: the latest one it holds
OwnTemperature(i) ==
    IF stationServed[i].ranges["ta_pt1m_avg"].present THEN StationTag(i) ELSE Undefined

\* C16: each location's result is keyed by its own identifier. The series stored
\* for a location is the one decoded from that location's own response, and entry
\* i of the station list carries station i and the observation of station i's own
\* response (or station i and an error when its request failed), whatever the
\* order in which the requests complete.
C16_KeyedByOwnIdentifier ==
    /\ batch.origin = "live" =>
          \A k \in LocationKeys :
              /\ batch.weatherData[k] = Some(TransformedData(served[k]))
              /\ batch.weatherData[k][1][1].temperature = LocationTag[k]
    /\ stationsCall.outcome = "resolved" =>
          /\ Len(stationsCall.results) = MaxStations
          /\ \A i \in StationIndexes :
                LET entry == stationsCall.results[i]
                IN  /\ entry.station = GULF_OF_FINLAND_STATIONS[i]
                    /\ stationServed[i].ok =>
                          /\ entry.error = NoError
                          /\ entry.observations.temperature = OwnTemperature(i)
                    /\ ~stationServed[i].ok =>
                          /\ entry.error # NoError
                          /\ entry.observations.temperature = Undefined

\* both result sets are stored although the requests completed in the reverse of
\* the order they were issued in
C16_Witness ==
    /\ batch.origin = "live" /\ batch.pc = "idle"
    /\ batch.settled = <<"pello", "kilpisjarvi", "utsjoki", "sodankyla", "helsinki">>
    /\ stationsCall.outcome = "resolved"
    /\ stationsCall.settled[1] = 2 /\ stationsCall.settled[2] = 1
    /\ stationsCall.results[1].observations.temperature = StationTag(1)
    /\ stationsCall.results[2].observations.temperature = StationTag(2)

----------------------------------------------------------------------------
(* Claims about loading and the timeout (checked under SpecSearch) *)

\* requests of the search view that have not settled: those a call still waits
\* for and those whose call gave up
SearchOutstanding == search.waiting + search.abandoned

\* C14: the loading indicator is shown while a fetch is outstanding. At every
\* moment at which a request issued by the view has not yet settled, the view's
\* loading flag is true.
C14_LoadingWhileOutstanding ==
    /\ SearchOutstanding > 0 => search.loading
    /\ helsinki.pc = "awaiting" => helsinki.loading
    /\ weatherMap.pc = "awaiting" => weatherMap.loading

\* the weaker reading, which counts only the requests a call is still waiting for
\* (an overlapping call clears the flag when it finishes first)
LoadingWhileAwaited ==
    search.waiting > 0 => search.loading

\* two calls of the search view are in flight at once
C14_Witness == search.waiting = 2


----------------------------------------------------------------------------
(* C15 *)

\* what the city search view displays
SearchView(s) == <<s.weatherData, s.loading, s.error>>

\* C15: in the city search view a call whose timer fires before its request settles
\* gives the request up and leaves the view exactly as a failed request does (the
\* mock fallback), and a request that settles after its call has given up changes
\* nothing of what the view displays
C15_TimeoutIsFailure ==
    [][/\ search'.abandoned > search.abandoned =>
            /\ search'.elapsed = TIMEOUT_MS
            /\ search'.waiting = search.waiting - 1
            /\ SearchView(search') = SearchView(SearchFallback("error"))
       /\ search'.abandoned < search.abandoned =>
            SearchView(search') = SearchView(search)]_vars

\* one call timed out, and its request then settled with a body the decoder accepts
C15_Witness ==
    /\ search.issued = 1
    /\ search.last = "timeout"
    /\ search.elapsed = TIMEOUT_MS
    /\ search.abandoned = 0
    /\ ~FetchRejects(response)
    /\ ~ExtractThrows(response)
    /\ search.weatherData # Some(extractWeatherData(response, HOURLY_COUNT))
    /\ search.weatherData = Some(extractWeatherData(getMockWeatherData, HOURLY_COUNT))


----------------------------------------------------------------------------
(* C17 (checked under SpecGrid) *)

\* C17: fallback shape parity. When a rain animation shows the demonstration data,
\* it has as many time steps as the coverage of the request has (the t axis of the
\* response) and as many cells per step as the decoder lays out for that coverage
\* (the x and y axes, or the fallback resolution squared when an axis is empty)
C17_FallbackShapeParity ==
    /\ rain.origin = "demo" =>
          /\ rain.demo.steps = Len(areaResponse.t)
          /\ rain.demo.cells = RainDim(areaResponse.x) * RainDim(areaResponse.y)
    /\ rain2.origin = "demo" =>
          /\ rain2.demo.steps = Len(areaResponse.t)
          /\ rain2.demo.cells = Rain2Dim(areaResponse.x) * Rain2Dim(areaResponse.y)

\* a body with axes but without the parameter arrived and the demonstration is shown
C17_Witness ==
    /\ areaResponse.shape = "noParam"
    /\ rain2.origin = "demo"
    /\ rain.origin = "demo"

\* the same parity for the five-location view (checked under SpecSeries): the mock
\* series of a location is as long as the time axis of the response
MockSeriesParity ==
    app.origin = "mock" =>
        \A loc \in LocationKeys : Len(app.weatherData[loc][1]) = Len(response.t)


----------------------------------------------------------------------------
(* C18 (checked under SpecHourly) *)

\* no value of `values` belongs to a time of day `key`
NoSampleOn(key, values) ==
    \A k \in 1..Len(response.t) :
        DateKey(response.t[k]) = key => Nullish(At(values, k - 1))

\* C18: a fetch that succeeds and decodes yields no made-up value. The current
\* reading has no temperature when the response has none for the first time step and
\* no weather symbol when it has no cloud cover there; a day of the 7-day forecast
\* without a cloud-cover sample has no weather symbol; a day of the 5-day forecast
\* without a weather-symbol sample has no weather symbol
C18_NoInventedValues ==
    /\ current.outcome = "resolved" =>
          /\ Nullish(At(OnlyKey(response, "Temperature"), 0))
                => Nullish(current.weather[1].temperature)
          /\ Nullish(At(OnlyKey(response, "TotalCloudCover"), 0))
                => Nullish(current.weather[1].weatherSymbol)
    /\ weekly.outcome = "resolved" =>
          \A i \in 1..Len(weekly.forecasts) :
              NoSampleOn(weekly.forecasts[i].date, OnlyKey(response, "TotalCloudCover"))
                  => Nullish(weekly.forecasts[i].weatherSymbol)
    /\ forecast.loaded =>
          \A i \in 1..Len(forecast.forecastData) :
              NoSampleOn(forecast.forecastData[i].date,
                         LowerThenUpper(response, "weathersymbol3", "WeatherSymbol3"))
                  => Nullish(forecast.forecastData[i].weatherSymbol)

\* the three decoders succeeded on a response without cloud cover and with a null
\* first temperature
C18_Witness ==
    /\ response.shape = "ok"
    /\ ~response.ranges["TotalCloudCover"].present
    /\ At(OnlyKey(response, "Temperature"), 0) = Null
    /\ current.outcome = "resolved"
    /\ weekly.outcome = "resolved" /\ Len(weekly.forecasts) > 0
    /\ forecast.loaded


----------------------------------------------------------------------------
(* C19 (checked under SpecHourly) *)

SymbolSeries == LowerThenUpper(response, "weathersymbol3", "WeatherSymbol3")

\* the positions of the time axis that fall on day `key` and carry a symbol
SymbolPositions(key) ==
    {k \in 1..Len(response.t) :
        DateKey(response.t[k]) = key /\ ~Nullish(At(SymbolSeries, k - 1))}

\* how often symbol v occurs on day `key`
SymbolCount(key, v) == Cardinality({k \in SymbolPositions(key) : SymbolSeries[k] = v})

\* the symbols of day `key` with the highest count
ModalSymbols(key) ==
    {SymbolSeries[k] : k \in {k \in SymbolPositions(key) :
        \A j \in SymbolPositions(key) :
            SymbolCount(key, SymbolSeries[j]) <= SymbolCount(key, SymbolSeries[k])}}

\* the earliest time of day `key` at which symbol v occurs
FirstTimeOf(key, v) ==
    CHOOSE time \in {response.t[k] : k \in {k \in SymbolPositions(key) : SymbolSeries[k] = v}} :
        \A k \in SymbolPositions(key) : SymbolSeries[k] = v => time <= response.t[k]

\* the first position of the time axis on day `key` at which symbol v occurs
FirstPositionOf(key, v) ==
    CHOOSE k \in SymbolPositions(key) :
        /\ SymbolSeries[k] = v
        /\ \A j \in SymbolPositions(key) : SymbolSeries[j] = v => k <= j

\* C19: the weather symbol of each day of the 5-day forecast that has symbols is one
\* of the day's most frequent non-null symbols, and among those it is the one that
\* occurred at the earliest time
C19_ModalSymbolFirstInTime ==
    forecast.loaded =>
        \A i \in 1..Len(forecast.forecastData) :
            LET day == forecast.forecastData[i]
            IN  SymbolPositions(day.date) # {} =>
                    /\ day.weatherSymbol \in ModalSymbols(day.date)
                    /\ \A v \in ModalSymbols(day.date) :
                          FirstTimeOf(day.date, day.weatherSymbol) <= FirstTimeOf(day.date, v)

\* a day with two symbols that tie, sent latest first
C19_Witness ==
    /\ forecast.loaded
    /\ response.shape = "ok"
    /\ \E i \in 1..Len(forecast.forecastData) :
          /\ Cardinality(ModalSymbols(forecast.forecastData[i].date)) = 2
          /\ \E k \in 1..(Len(response.t) - 1) : response.t[k] > response.t[k + 1]

\* what the code does with a tie: the tied symbol that comes first on the time axis
\* as sent, which is the earliest one only when the axis is ascending
ModalSymbolFirstOnAxis ==
    forecast.loaded =>
        \A i \in 1..Len(forecast.forecastData) :
            LET day == forecast.forecastData[i]
            IN  SymbolPositions(day.date) # {} =>
                    /\ day.weatherSymbol \in ModalSymbols(day.date)
                    /\ \A v \in ModalSymbols(day.date) :
                          FirstPositionOf(day.date, day.weatherSymbol)
                              <= FirstPositionOf(day.date, v)


----------------------------------------------------------------------------
(* C20 (checked under SpecHourly) *)

\* time lies on UTC day d
InDay(time, d) == HoursPerDay * d <= time /\ time < HoursPerDay * (d + 1)

\* the temperatures of UTC day d that a decoder keeps, as numbers
DayTemperatures(d, dropped) ==
    {ToNumber(At(OnlyKey(response, "Temperature"), k - 1)) :
        k \in {k \in 1..Len(response.t) :
                  /\ InDay(response.t[k], d)
                  /\ At(OnlyKey(response, "Temperature"), k - 1) \notin dropped}}

SetMin(S) == CHOOSE m \in S : \A v \in S : m <= v
SetMax(S) == CHOOSE m \in S : \A v \in S : m >= v

\* the last hour of day 0 and the first hour of day 1 are both on the time axis
AcrossMidnight ==
    /\ response.shape = "ok"
    /\ \E k \in 1..Len(response.t) : response.t[k] = HoursPerDay - 1
    /\ \E k \in 1..Len(response.t) : response.t[k] = HoursPerDay

\* C20: samples are bucketed by the UTC calendar date of their timestamp. When a
\* response has a sample in the last hour of one UTC day and one in the first hour
\* of the next, each of the two days that keeps a temperature has its own entry,
\* whose minimum and maximum are taken over exactly the samples of that UTC day
C20_BucketsAreUtcDays ==
    AcrossMidnight =>
        /\ forecast.loaded =>
              \A d \in 0..1 :
                  DayTemperatures(d, {Null, Undefined}) # {} =>
                      \E i \in 1..Len(forecast.forecastData) :
                          /\ forecast.forecastData[i].date = d
                          /\ forecast.forecastData[i].minTemp
                                = SetMin(DayTemperatures(d, {Null, Undefined}))
                          /\ forecast.forecastData[i].maxTemp
                                = SetMax(DayTemperatures(d, {Null, Undefined}))
        /\ weekly.outcome = "resolved" =>
              \A d \in 0..1 :
                  DayTemperatures(d, {Undefined}) # {} =>
                      \E i \in 1..Len(weekly.forecasts) :
                          /\ weekly.forecasts[i].date = d
                          /\ weekly.forecasts[i].temperature.min
                                = SetMin(DayTemperatures(d, {Undefined}))
                          /\ weekly.forecasts[i].temperature.max
                                = SetMax(DayTemperatures(d, {Undefined}))

\* both aggregations ran on a response with temperatures one hour apart across
\* midnight, and each reports two days
C20_Witness ==
    /\ AcrossMidnight
    /\ DayTemperatures(0, {Null, Undefined}) # {}
    /\ DayTemperatures(1, {Null, Undefined}) # {}
    /\ forecast.loaded /\ Len(forecast.forecastData) = 2
    /\ weekly.outcome = "resolved" /\ Len(weekly.forecasts) = 2


----------------------------------------------------------------------------
(* C21 (checked under SpecSearch) *)

\* C21: when the city search view shows the fallback, its hourly series has exactly
\* HOURLY_COUNT = 12 points and their times are strictly increasing
C21_FallbackSeriesOfTwelve ==
    search.origin = "mock" =>
        LET data == search.weatherData[1]
        IN  /\ data.hourlyTemperatures # None
            /\ Len(data.hourlyTemperatures[1]) = HOURLY_COUNT
            /\ \A i, j \in 1..Len(data.hourlyTemperatures[1]) :
                  i < j => data.hourlyTemperatures[1][i].time
                              < data.hourlyTemperatures[1][j].time

\* the fallback was taken after a failed request and after a timeout
C21_Witness ==
    /\ search.origin = "mock"
    /\ search.last = "timeout"
    /\ search.issued = 2
    /\ search.waiting = 0


----------------------------------------------------------------------------
(* C22 (checked under SpecFetch) *)

\* C22: a settled position or area fetch is rejected whenever the network call
\* raised or the status lies outside 200..299, and it resolves with the parsed body
\* only when the call answered with a status inside 200..299
C22_FailsUnlessSuccessStatus ==
    \A kind \in EdrKinds :
        edr[kind].outcome # "none" =>
            /\ (wire.raises \/ wire.status < 200 \/ wire.status > 299)
                  => edr[kind].outcome = "rejected" /\ edr[kind].value = None
            /\ edr[kind].outcome = "resolved"
                  => /\ ~wire.raises
                     /\ wire.status \in 200..299
                     /\ edr[kind].value = Some(wire.body)

\* both fetches have settled on an answer that is not a success and is not an error
\* status either
C22_Witness ==
    /\ ~wire.raises
    /\ wire.status = 304
    /\ wire.body = "coverage"
    /\ \A kind \in EdrKinds : edr[kind].outcome = "rejected"


----------------------------------------------------------------------------
(* C23 (checked under SpecPicker) *)

AllArrived == \A i \in 1..Len(picker.calls) : ~picker.calls[i].inFlight

\* C23: once every request the city search view has started has settled, the view
\* displays the result of the request that was started last
C23_LatestRequestWins ==
    (picker.calls # <<>> /\ AllArrived) =>
        picker.weatherData
            = Some(PickerResult(cityServed[picker.calls[Len(picker.calls)].city]))

\* a second city was selected while the first request was in flight, and the first
\* request settled last
C23_Witness ==
    /\ Len(picker.calls) = 2
    /\ AllArrived
    /\ picker.calls[1].city # picker.calls[2].city
    /\ picker.shown = 1


----------------------------------------------------------------------------
(* C24 (checked under SpecStation) *)

\* the time indexes of a body at which all five parameters have a value
CompleteIndexes(r) ==
    {i \in 0..(Len(r.t) - 1) :
        \A key \in ObsKeys : ObsValue(r, key, i) # Null /\ ObsValue(r, key, i) # Undefined}

MostRecent(indexes) == CHOOSE i \in indexes : \A j \in indexes : j <= i

\* C24: the observations returned for a station are the values at the most recent
\* time index at which all five parameters have a value, whenever the body has such
\* an index
C24_MostRecentComplete ==
    \A i \in StationIndexes :
        (stationsCall.branch[i] = "fulfilled" /\ CompleteIndexes(stationServed[i]) # {}) =>
            LET r == stationServed[i]
                at == MostRecent(CompleteIndexes(r))
                obs == stationsCall.value[i][1].observations
            IN  /\ obs.timestamp = At(r.t, at)
                /\ obs.temperature = ObsValue(r, "ta_pt1m_avg", at)
                /\ obs.windSpeed = ObsValue(r, "ws_pt10m_avg", at)
                /\ obs.windDirection = ObsValue(r, "wd_pt10m_avg", at)
                /\ obs.gustSpeed = ObsValue(r, "wg_pt1h_max", at)
                /\ obs.pressure = ObsValue(r, "pa_pt1m_avg", at)

\* a station answered with a complete earlier step and a later step that has only
\* the temperature
C24_Witness ==
    \E i \in StationIndexes :
        /\ stationsCall.branch[i] = "fulfilled"
        /\ CompleteIndexes(stationServed[i]) = {0}
        /\ ObsValue(stationServed[i], "ta_pt1m_avg", 1) # Null


----------------------------------------------------------------------------
(* C25 (checked under SpecKeyed) *)

Measurements(obs) ==
    <<obs.temperature, obs.windSpeed, obs.windDirection, obs.gustSpeed, obs.pressure>>

\* C25: getAllStationObservations never rejects. When it has settled it has
\* resolved with one entry per station in the order of the station list; the entry
\* of a station whose request failed names that station, has an error message and no
\* measurement; the entry of every other station is what getStationObservations
\* returned for that station's body, without an error
C25_OneEntryPerStation ==
    /\ stationsCall.outcome # "rejected"
    /\ stationsCall.outcome = "resolved" =>
          /\ Len(stationsCall.results) = MaxStations
          /\ \A i \in StationIndexes :
                LET entry == stationsCall.results[i]
                IN  /\ entry.station = GULF_OF_FINLAND_STATIONS[i]
                    /\ ~stationServed[i].ok =>
                          /\ entry.error # NoError
                          /\ \A m \in 1..5 : Measurements(entry.observations)[m] = Undefined
                    /\ stationServed[i].ok =>
                          /\ entry.error = NoError
                          /\ entry.observations = getStationObservations(stationServed[i])

\* the call resolved after the last station of the list settled first and failed,
\* while another station succeeded
C25_Witness ==
    /\ stationsCall.outcome = "resolved"
    /\ stationsCall.settled[1] = MaxStations
    /\ ~stationServed[MaxStations].ok
    /\ stationServed[1].ok


----------------------------------------------------------------------------
(* C26 (checked under SpecPlayer) *)

\* C26: whenever the rain animation has time steps, the current time index is an
\* index into them
C26_IndexInRange ==
    player.timeSteps # <<>> =>
        /\ 0 <= player.currentTimeIndex
        /\ player.currentTimeIndex < Len(player.timeSteps)

\* a reload has replaced the time steps by fewer while the animation was playing
C26_Witness ==
    /\ player.loads = 2
    /\ ~player.loading
    /\ player.stale
    /\ player.isPlaying
    /\ player.interval # None
    /\ Len(player.timeSteps) < player.interval[1]
    /\ Len(player.timeSteps) > 0


----------------------------------------------------------------------------
(* C27 (checked under SpecRefresh) *)

\* C27: when a request of the 5-day forecast or of the temperature chart settles in
\* failure, the data the view holds stays as it was and the error message is set
C27_FailedRefreshKeepsData ==
    [][/\ (forecast.pc = "awaiting" /\ forecast'.pc = "idle"
              /\ ForecastError(response) # NoError)
            => /\ forecast'.forecastData = forecast.forecastData
               /\ forecast'.error # NoError
       /\ (chart.pc = "awaiting" /\ chart'.pc = "idle" /\ ChartError(response) # NoError)
            => /\ chart'.chartData = chart.chartData
               /\ chart'.error # NoError]_vars

\* both views hold data of an earlier load and show the error of a failed refresh
C27_Witness ==
    /\ forecast.pc = "idle" /\ forecast.error # NoError /\ forecast.forecastData # <<>>
    /\ chart.pc = "idle" /\ chart.error # NoError /\ chart.chartData # <<>>

----------------------------------------------------------------------------
(* C29 (checked under SpecMissing) *)

\* the values a body carries under one casing of the temperature key
ValuesUnder(r, key) == IF r.ranges[key].present THEN r.ranges[key].values ELSE <<>>

\* the array the average is taken over: the capitalised key's when the body has it
TemperatureValues(r) ==
    IF r.ranges["Temperature"].present THEN r.ranges["Temperature"].values
    ELSE ValuesUnder(r, "temperature")

NonNull(a) == SelectSeq(a, LAMBDA v : v # Null)

\* C29: a settled getAverageTemperature either resolved with the arithmetic mean of
\* exactly the non-null temperature values (a sum over at least one value, never
\* NaN), or rejected with an error; it rejects whenever the body has no temperature
\* values under either casing or none of its values is valid
C29_MeanOfValidOrRejects ==
    average.outcome # "none" =>
        /\ average.outcome = "resolved" =>
              /\ average.error = NoError
              /\ average.value.count > 0
              /\ average.value.count = Len(NonNull(TemperatureValues(response)))
              /\ average.value.sum = SumSeq(NonNull(TemperatureValues(response)))
        /\ average.outcome = "rejected" =>
              /\ average.error # NoError
              /\ average.value.count = 0
        /\ (\/ ValuesUnder(response, "Temperature") \o ValuesUnder(response, "temperature")
                 = <<>>
            \/ NonNull(ValuesUnder(response, "Temperature")
                        \o ValuesUnder(response, "temperature")) = <<>>)
              => average.outcome = "rejected"

\* the call resolved on a body whose temperatures hold a null among valid values
C29_Witness ==
    /\ average.outcome = "resolved"
    /\ response.shape = "ok"
    /\ Len(NonNull(TemperatureValues(response))) > 1
    /\ Len(NonNull(TemperatureValues(response))) < Len(TemperatureValues(response))

----------------------------------------------------------------------------
(* C28 (checked under SpecActivity) *)

\* C28: once every city's request of the activity map has settled and the function
\* has run to its end, no city is left with its loading flag set
C28_NoCityLoadingAfterSettle ==
    activityMap.pc = "done" =>
        \A i \in Cities : ~activityMap.citiesWeather[i].loading

\* every request has settled without data, the error flag is set and every city
\* still has its loading flag
C28_Witness ==
    /\ activityMap.pc = "done"
    /\ activityMap.hasError
    /\ \A i \in Cities : activityMap.results[i][1].error # NoError
    /\ \A i \in Cities : activityMap.citiesWeather[i].loading

----------------------------------------------------------------------------
(* C30 (checked under SpecChristmas) *)

\* C30: the demo-data notice of the Christmas maps is set only if the data of at
\* least one displayed city came from the failure branch of its request
C30_NoticeOnlyWithDemoData ==
    christmas.error = DemoNotice =>
        \E i \in Cities : XmasThrows(xmasBodies[i])

\* every city's request succeeded with its four parameters, the live values are
\* displayed and the notice is set
C30_Witness ==
    /\ christmas.pc = "done"
    /\ \A i \in Cities : ~XmasThrows(xmasBodies[i])
    /\ \A i \in Cities :
         christmas.currentWeatherData[i].temperature = LiveTemperature(i)
    /\ christmas.error = DemoNotice

==============================================================================
